---------------------------- MODULE Spec2Model ----------------------------
(***************************************************************************)
(* Model of the MCP Memory Bank server (bsmi021/mcp-memory-bank):          *)
(*   - EmbeddingService.chunkText / _splitTextWithTokenizer, the recursive *)
(*     tokenizer-aware splitter (a pure function, checked under ChunkSpec);*)
(*   - MemoryBankService.updateFileContent / getFileContent /              *)
(*     deleteFileContent over DatabaseService's chunk collection, as       *)
(*     request handlers that interleave at every await (checked under      *)
(*     Spec).                                                              *)
(*                                                                         *)
(* A text is a sequence of one-character strings.  The tokenizer is the    *)
(* default model's (Xenova/all-MiniLM-L6-v2, a BERT WordPiece tokenizer):  *)
(* encode() brackets the word and punctuation tokens with [CLS] and [SEP], *)
(* decode(.., skip_special_tokens) drops them and joins the tokens with a  *)
(* space, except before punctuation.                                       *)
(***************************************************************************)
EXTENDS Integers, Sequences, FiniteSets, TLC

VARIABLES
    options,      \* TextSplitterOptions of the deployment: [chunkSize, chunkOverlap]
    doc,          \* ChunkSpec: the content handed to chunkText
    chunks,       \* ChunkSpec: what chunkText returned
    phase,        \* ChunkSpec: "input" before the call, "chunked" after it
    projects,     \* ids in the projects collection
    store,        \* the chunks collection: a set of chunk records
    call,         \* per request handler: its position and locals
    calls,        \* number of requests started so far
    background,   \* inserts still on their way after their Promise.all rejected
    faults,       \* number of store and embedder failures so far
    writeOverlap, \* history: two writes to the store have overlapped in time
    failed,       \* history: some update or delete has reported an error
    lastWrite,    \* history: per file, the last write that reported success
    embedder,     \* EmbeddingService: isInitialized, extractor, tokenizer
    initializing, \* the call of EmbeddingService.initialize: its position
    entry,        \* the last call of chunkText / generateEmbedding and its outcome
    search,       \* the memoryBank_search request: its position and locals
    descent,      \* one path of _splitTextWithTokenizer's call tree, and its loop
    projectNames, \* the projects collection: the project_name of each id
    database,     \* DatabaseService: isInitialized, client, the two collections
    server        \* main: its position, the registered tools, the transport

chunkOnly == <<doc, chunks, phase>>
svcOnly == <<projects, store, call, calls, background, faults, writeOverlap, failed, lastWrite>>
restOnly == <<embedder, initializing, entry, search, descent>>
sysOnly == <<projectNames, database, server>>
vars == <<options, doc, chunks, phase, projects, store, call, calls, background,
          faults, writeOverlap, failed, lastWrite, embedder, initializing, entry, search, descent,
          projectNames, database, server>>

---------------------------------------------------------------------------
(* Bounds of the model *)

MaxDocLen == 6
MaxCalls == 2
MaxFaults == 1
\* token budgets that documents of MaxDocLen characters overflow
SmallChunkSize == 4
WideChunkSize == 6
SmallChunkOverlap == 1
\* documents whose splitting is followed call by call
MaxSplitDocLen == 4
\* calls of EmbeddingService.initialize
MaxInits == 3
\* tools/call requests the client sends while the server starts
MaxRequests == 2
\* rows of a get whose every order is explored
MaxShuffled == 4
\* longest document whose split loop is followed iteration by iteration
MaxLoopDocLen == 7

---------------------------------------------------------------------------
(* Characters and texts *)

NL == "\n"
Letters == {"a", "b"}
Puncts == {"."}
Spaces == {" ", NL}
Alphabet == Letters \cup Puncts \cup Spaces

Docs == UNION {[1..n -> Alphabet] : n \in 0..MaxDocLen}

Min(S) == CHOOSE x \in S : \A y \in S : x <= y
Max(S) == CHOOSE x \in S : \A y \in S : x >= y

RECURSIVE Concat(_)
\* Array.prototype.join(''): the texts one after another, nothing between
Concat(texts) ==
    IF texts = <<>> THEN <<>> ELSE Head(texts) \o Concat(Tail(texts))

\* String.prototype.trim().length > 0
HasNonWhitespace(text) == \E i \in 1..Len(text) : text[i] \notin Spaces

RECURSIVE StripWhitespace(_)
StripWhitespace(text) ==
    IF text = <<>> THEN <<>>
    ELSE IF Head(text) \in Spaces THEN StripWhitespace(Tail(text))
    ELSE <<Head(text)>> \o StripWhitespace(Tail(text))

RECURSIVE split(_, _)
\* String.prototype.split(separator) for a non-empty separator
split(text, separator) ==
    LET n == Len(text)
        m == Len(separator)
        at == {i \in 1..(n - m + 1) : SubSeq(text, i, i + m - 1) = separator}
    IN  IF at = {} THEN <<text>>
        ELSE LET i == Min(at)
             IN  <<SubSeq(text, 1, i - 1)>> \o split(SubSeq(text, i + m, n), separator)

\* String.prototype.substring(start) with a 0-based start
substring(text, start) == SubSeq(text, start + 1, Len(text))

---------------------------------------------------------------------------
(* The tokenizer (PreTrainedTokenizer of @xenova/transformers) *)

CLS == <<"[CLS]">>
SEP == <<"[SEP]">>
SpecialTokens == {CLS, SEP}

RECURSIVE WordPieces(_)
\* The tokens of a text: whitespace separates, a punctuation mark is a token
\* of its own, a maximal run of letters is one token.
WordPieces(text) ==
    IF text = <<>> THEN <<>>
    ELSE LET c == Head(text)
             n == Len(text)
         IN  IF c \in Spaces THEN WordPieces(Tail(text))
             ELSE IF c \in Puncts THEN <<(<<c>>)>> \o WordPieces(Tail(text))
             ELSE LET stop == {i \in 1..n : text[i] \notin Letters} \cup {n + 1}
                      k == Min(stop) - 1
                  IN  <<SubSeq(text, 1, k)>> \o WordPieces(SubSeq(text, k + 1, n))

\* tokenizer.encode(text): add_special_tokens defaults to true
encode(text) == <<CLS>> \o WordPieces(text) \o <<SEP>>

RECURSIVE JoinTokens(_, _)
JoinTokens(tokens, first) ==
    IF tokens = <<>> THEN <<>>
    ELSE LET t == Head(tokens)
             glue == IF first \/ t[1] \in Puncts THEN <<>> ELSE <<" ">>
         IN  glue \o t \o JoinTokens(Tail(tokens), FALSE)

\* tokenizer.decode(ids, { skip_special_tokens: true })
decode(tokenIds) ==
    JoinTokens(SelectSeq(tokenIds, LAMBDA t : t \notin SpecialTokens), TRUE)

tokenCount(text) == Len(encode(text))

---------------------------------------------------------------------------
(* EmbeddingService._splitTextWithTokenizer *)

separators == << <<NL, NL>>, <<NL>>, <<".", " ">>, <<"?", " ">>, <<"!", " ">>, <<" ">>, <<>> >>

OverlapCharsPerToken == 4

RECURSIVE TokenWindows(_, _, _)
\* the base case's loop: for (i = 0; i < tokenIds.length; i += chunkSize - chunkOverlap)
TokenWindows(tokenIds, i, opts) ==
    IF i >= Len(tokenIds) THEN <<>>
    ELSE LET chunkTokenIds == SubSeq(tokenIds, i + 1, Min({i + opts.chunkSize, Len(tokenIds)}))
             rest == TokenWindows(tokenIds, i + opts.chunkSize - opts.chunkOverlap, opts)
         IN  IF Len(chunkTokenIds) > 0 THEN <<decode(chunkTokenIds)>> \o rest ELSE rest

\* a recursive call handed the list it was called with
RemainingSeparators_Same(seps) == seps

\* const remainingSeparators = separators.slice(1)
RemainingSeparators(seps) == Tail(seps)

RECURSIVE splitTextWithTokenizer(_, _, _)
RECURSIVE SplitLoop(_, _, _, _, _, _)

\* the for loop over splits; st = [finalChunks, currentChunk, currentChunkTokens]
SplitLoop(splits, i, st, opts, separator, remainingSeparators) ==
    IF i > Len(splits)
    THEN \* add the last remaining chunk if it's not empty
         IF HasNonWhitespace(st.currentChunk)
         THEN st.finalChunks \o <<st.currentChunk>>
         ELSE st.finalChunks
    ELSE
    LET sp == splits[i]
        splitWithSeparator == IF i > 1 /\ separator # <<>> THEN separator \o sp ELSE sp
        splitTokens == tokenCount(splitWithSeparator)
    IN  IF splitTokens > opts.chunkSize
        THEN \* a single split is too large: recurse with finer separators
             LET subChunks == splitTextWithTokenizer(sp, opts, remainingSeparators)
             IN  SplitLoop(splits, i + 1,
                           [finalChunks |-> st.finalChunks \o subChunks,
                            currentChunk |-> <<>>, currentChunkTokens |-> 0],
                           opts, separator, remainingSeparators)
        ELSE IF st.currentChunkTokens + splitTokens <= opts.chunkSize
        THEN SplitLoop(splits, i + 1,
                       [finalChunks |-> st.finalChunks,
                        currentChunk |-> st.currentChunk \o splitWithSeparator,
                        currentChunkTokens |-> st.currentChunkTokens + splitTokens],
                       opts, separator, remainingSeparators)
        ELSE \* current chunk is full: finalize it, start a new one with overlap
             LET closed == IF HasNonWhitespace(st.currentChunk)
                           THEN st.finalChunks \o <<st.currentChunk>>
                           ELSE st.finalChunks
                 overlapStartIndex ==
                     Max({0, Len(st.currentChunk) - opts.chunkOverlap * OverlapCharsPerToken})
                 overlapText == substring(st.currentChunk, overlapStartIndex)
                 newChunk == overlapText \o splitWithSeparator
                 newTokens == tokenCount(newChunk)
             IN  IF newTokens > opts.chunkSize
                 THEN LET subChunks ==
                              splitTextWithTokenizer(splitWithSeparator, opts, remainingSeparators)
                      IN  SplitLoop(splits, i + 1,
                                    [finalChunks |-> closed \o subChunks,
                                     currentChunk |-> <<>>, currentChunkTokens |-> 0],
                                    opts, separator, remainingSeparators)
                 ELSE SplitLoop(splits, i + 1,
                                [finalChunks |-> closed,
                                 currentChunk |-> newChunk, currentChunkTokens |-> newTokens],
                                opts, separator, remainingSeparators)

splitTextWithTokenizer(text, opts, seps) ==
    LET separator == Head(seps)
        remainingSeparators == RemainingSeparators(seps)
    IN  IF separator = <<>>
        THEN IF Len(text) = 0 THEN <<>>
             ELSE TokenWindows(encode(text), 0, opts)
        ELSE SplitLoop(split(text, separator), 1,
                       [finalChunks |-> <<>>, currentChunk |-> <<>>, currentChunkTokens |-> 0],
                       opts, separator, remainingSeparators)

\* EmbeddingService.chunkText (the tokenizer is loaded)
chunkText(content) == splitTextWithTokenizer(content, options, separators)

---------------------------------------------------------------------------
(* Splitter options.  chunkText passes 450 / 50; the deployments explored  *)
(* here also use budgets small enough for bounded documents to overflow.   *)

DefaultChunkSize == 450
DefaultChunkOverlap == 50

Opt(s, o) == [chunkSize |-> s, chunkOverlap |-> o]

OptionSet ==
    { Opt(DefaultChunkSize, DefaultChunkOverlap),
      Opt(SmallChunkSize, 0),
      Opt(SmallChunkSize, SmallChunkOverlap),
      Opt(WideChunkSize, SmallChunkOverlap) }

---------------------------------------------------------------------------
(* DatabaseService: the chunks collection *)

ProjectIds == {"p1", "p2"}
FileNames == {"f1"}

\* the metadata and document of one chunk (insertMemoryBankChunk)
ChunkRecord(chunkId, projectId, fileName, chunkIndex, text) ==
    [chunkId |-> chunkId, projectId |-> projectId, fileName |-> fileName,
     chunkIndex |-> chunkIndex, chunkText |-> text]

\* the records updateFileContent call `id` left for a chunk list
Stored(id, projectId, fileName, texts) ==
    {ChunkRecord(<<id, i>>, projectId, fileName, i - 1, texts[i]) : i \in 1..Len(texts)}

\* collection.get({ where: { $and: [project_id, file_name] } })
FileChunks(st, projectId, fileName) ==
    {c \in st : c.projectId = projectId /\ c.fileName = fileName}

\* a get that keeps one row only (limit: 1, as the project lookups pass)
IdsToDelete_Limit1(st, projectId, fileName) ==
    LET ids == {c.chunkId : c \in FileChunks(st, projectId, fileName)}
    IN  IF ids = {} THEN {} ELSE {CHOOSE id \in ids : TRUE}

\* step 2 left out: the ids of all the project's chunks
IdsToDelete_WholeProject(st, projectId, fileName) ==
    {c.chunkId : c \in {e \in st : e.projectId = projectId}}

\* deleteMemoryBankContentByFile, steps 1 and 2: the ids of the project's
\* chunks whose metadata carries the file name
IdsToDelete(st, projectId, fileName) ==
    {c.chunkId : c \in {d \in {e \in st : e.projectId = projectId} : d.fileName = fileName}}

\* collection.delete({ ids })
DeleteIds(st, ids) == {c \in st : c.chunkId \notin ids}

\* findProjectById(projectId) !== null
ProjectFound(projectId) == projectId \in projects

\* the names of the projects an earlier run of the server left
SeedNames(ps) == [p \in ps |-> "n" \o p]

RECURSIVE Orders(_)
\* every order in which the store may return a set of records
Orders(S) ==
    IF S = {} THEN {<<>>}
    ELSE UNION {{<<x>> \o s : s \in Orders(S \ {x})} : x \in S}

RECURSIVE InsertSorted(_, _)
InsertSorted(c, sorted) ==
    IF sorted = <<>> THEN <<c>>
    ELSE IF c.chunkIndex < Head(sorted).chunkIndex THEN <<c>> \o sorted
    ELSE <<Head(sorted)>> \o InsertSorted(c, Tail(sorted))

RECURSIVE SortByChunkIndex(_)
\* chunks.sort((a, b) => a.chunkIndex - b.chunkIndex): stable
SortByChunkIndex(cs) ==
    IF cs = <<>> THEN <<>>
    ELSE InsertSorted(cs[Len(cs)], SortByChunkIndex(SubSeq(cs, 1, Len(cs) - 1)))

\* the rows as the store returned them, the sort left out
getMemoryBankChunksByFile_NoSort(rows) == rows

\* getMemoryBankChunksByFile on the rows the store returned, in its order
getMemoryBankChunksByFile(rows) == SortByChunkIndex(rows)

ChunkTexts(cs) == [i \in 1..Len(cs) |-> cs[i].chunkText]

---------------------------------------------------------------------------
(* MemoryBankService: results and the locals of a request *)

Result(code, value) == [code |-> code, value |-> value]
Ok(value) == Result("OK", value)
InvalidParams == Result("InvalidParams", <<>>)
InternalError == Result("InternalError", <<>>)
NoResult == Result("none", <<>>)

NoWrite == [content |-> <<>>, chunks |-> <<>>]

Procs == {"h1", "h2"}

IdleCall ==
    [pc |-> "idle", op |-> "none", id |-> 0, projectId |-> "", fileName |-> "",
     projectName |-> "",
     content |-> <<>>, chunks |-> <<>>, idsToDelete |-> {}, pending |-> {},
     issued |-> {}, before |-> {}, allowed |-> {}, fetched |-> {},
     quiet |-> FALSE, lastAtFetch |-> NoWrite, cleared |-> {},
     fault |-> "none", result |-> NoResult]

\* what a reader can tell of a set of chunk records: index and text
View(cs) == {<<c.chunkIndex, c.chunkText>> : c \in cs}
ViewOfList(texts) == {<<i - 1, texts[i]>> : i \in 1..Len(texts)}

Writing(c) == c.op \in {"update", "delete", "deleteProject"} /\ c.pc \notin {"idle", "done"}

\* getFileContent, lines 125-138: not found on zero chunks, else the texts joined
GetFileContentResult(sortedChunks) ==
    IF Len(sortedChunks) = 0 THEN InvalidParams
    ELSE Ok(Concat(ChunkTexts(sortedChunks)))

\* a fetch whose failure is swallowed into "no rows"
FetchFailedResult_AsNotFound == InvalidParams

\* getFileContent's catch: a failed fetch is an McpError(InternalError), re-thrown
FetchFailedResult == InternalError

\* updateFileContent, lines 56-63: zero chunks clears the file, else embed
AfterChunking(cs) == IF Len(cs) = 0 THEN "del_get" ELSE "u_embed"

\* an embedding failure that is logged and not re-thrown
AfterEmbedding_Swallow(ok) == "del_get"

\* updateFileContent, lines 69-78: a failed embedding aborts the update
AfterEmbedding(ok) == IF ok THEN "del_get" ELSE "done"

\* the documents the requests write
ServiceContents ==
    { <<>>,
      <<" ">>,
      <<"a">>,
      <<"a", NL, NL, "b", " ", "b", ".">> }

ServiceOptions == {Opt(SmallChunkSize, 0)}

---------------------------------------------------------------------------
(* MemoryBankService: the request handlers, one action per await *)

Writes == {"update", "delete"}

\* the handler returns or throws: its result, and the history it leaves
Finish(p, c, res) ==
    /\ call' = [call EXCEPT ![p] = [c EXCEPT !.pc = "done", !.result = res]]
    /\ failed' = (failed \/ (c.op \in Writes /\ res.code # "OK"))
    /\ lastWrite' =
         IF c.op \in Writes /\ res.code = "OK"
         THEN [lastWrite EXCEPT ![c.projectId, c.fileName] =
                  IF c.op = "update" THEN [content |-> c.content, chunks |-> c.chunks]
                  ELSE NoWrite]
         ELSE lastWrite

Goto(p, c, pc) ==
    /\ call' = [call EXCEPT ![p] = [c EXCEPT !.pc = pc]]
    /\ UNCHANGED <<failed, lastWrite>>

\* a call to the store or to the embedder succeeds (ok) or throws
Outcome(ok) ==
    IF ok THEN faults' = faults ELSE faults < MaxFaults /\ faults' = faults + 1

\* a tool handler is invoked, on a connection with no request in progress
Start(p) ==
    /\ call[p].pc \in {"idle", "done"}
    /\ calls < MaxCalls
    /\ \E op \in {"update", "get", "delete", "list"}, projectId \in ProjectIds, fileName \in FileNames :
         \E content \in (IF op = "update" THEN ServiceContents ELSE {<<>>}) :
           /\ call' = [call EXCEPT ![p] =
                         [IdleCall EXCEPT !.pc = "exists", !.op = op, !.id = calls + 1,
                                          !.projectId = projectId, !.fileName = fileName,
                                          !.content = content,
                                          !.before = View(FileChunks(store, projectId, fileName))]]
           /\ writeOverlap' =
                (writeOverlap \/ (op \in Writes /\
                                  ((\E q \in Procs \ {p} : Writing(call[q])) \/ background # {})))
    /\ calls' = calls + 1
    /\ UNCHANGED <<options, sysOnly, chunkOnly, restOnly, projects, store, background, faults, failed, lastWrite>>

\* the handler gets as far as chunkText, where the tokenizer may throw
ChunkingRuns(c) ==
    c.op = "update" /\ ProjectFound(c.projectId) /\ c.fileName # "" /\ c.content # <<>>

\* a chunking failure taken for a document without chunks
WhenChunkingFails_Clear(p, c) == Goto(p, [c EXCEPT !.fault = "chunk"], "del_get")

\* updateFileContent, lines 100-105: what tokenizer.encode / decode throws leaves
\* _splitTextWithTokenizer and chunkText uncaught, with the chunks built so
\* far, and is wrapped into an McpError(InternalError)
WhenChunkingFails(p, c) == Finish(p, [c EXCEPT !.fault = "chunk"], InternalError)

\* updateFileContent, lines 46-63, run when the project is found: the
\* emptiness check and chunkText (no store call resolves in between)
Chunked(p, c, tokOk) ==
    IF c.fileName = "" \/ c.content = <<>>
    THEN Finish(p, [c EXCEPT !.fault = "empty"], InvalidParams)
    ELSE IF ~tokOk THEN WhenChunkingFails(p, c)
    ELSE LET cs == chunkText(c.content)
         IN  Goto(p, [c EXCEPT !.chunks = cs], AfterChunking(cs))

\* await this.projectService.projectExists(projectId), and what the handler
\* does with the answer before its next await
ProjectExists(p) ==
    /\ call[p].pc = "exists"
    /\ \E dbOk \in BOOLEAN, tokOk \in BOOLEAN :
         (tokOk \/ (dbOk /\ ChunkingRuns(call[p]))) /\
         Outcome(dbOk /\ tokOk) /\
         LET c == call[p] IN
         IF ~dbOk THEN Finish(p, [c EXCEPT !.fault = "exists"], InternalError)
         ELSE IF ~ProjectFound(c.projectId)
         THEN Finish(p, [c EXCEPT !.fault = "no_project"], InvalidParams)
         ELSE CASE c.op = "update" -> Chunked(p, c, tokOk)
                [] c.op = "get" -> Goto(p, c, "g_fetch")
                [] c.op = "list" -> Goto(p, c, "l_fetch")
                [] OTHER -> Goto(p, c, "del_get")
    /\ UNCHANGED <<options, sysOnly, chunkOnly, restOnly, projects, store, calls, background, writeOverlap>>

\* updateFileContent: Promise.all of generateEmbedding over the chunks
Embed(p) ==
    /\ call[p].pc = "u_embed"
    /\ \E ok \in BOOLEAN :
         Outcome(ok) /\
         LET c == [call[p] EXCEPT !.fault = IF ok THEN "none" ELSE "embed"]
             next == AfterEmbedding(ok)
         IN  IF next = "done" THEN Finish(p, c, InternalError) ELSE Goto(p, c, next)
    /\ UNCHANGED <<options, sysOnly, chunkOnly, restOnly, projects, store, calls, background, writeOverlap>>

\* what follows deleteMemoryBankContentByFile: the inserts are all issued at
\* once (update), or the timestamp is touched (delete, or nothing to insert)
AfterDelete(c) ==
    IF c.op = "update" /\ Len(c.chunks) > 0
    THEN [c EXCEPT !.pc = "u_insert", !.pending = 1..Len(c.chunks),
                   !.issued = @ \cup {"add"}]
    ELSE [c EXCEPT !.pc = "touch"]

\* deleteMemoryBankContentByFile: get the project's chunks, keep the file's ids
DeleteGet(p) ==
    /\ call[p].pc = "del_get"
    /\ \E dbOk \in BOOLEAN :
         Outcome(dbOk) /\
         LET c == call[p]
             ids == IdsToDelete(store, c.projectId, c.fileName)
         IN  IF ~dbOk THEN Finish(p, [c EXCEPT !.fault = "delete"], InternalError)
             ELSE IF ids = {}
             THEN /\ call' = [call EXCEPT ![p] = AfterDelete(c)]
                  /\ UNCHANGED <<failed, lastWrite>>
             ELSE Goto(p, [c EXCEPT !.idsToDelete = ids], "del_ids")
    /\ UNCHANGED <<options, sysOnly, chunkOnly, restOnly, projects, store, calls, background, writeOverlap>>

\* deleteMemoryBankContentByFile: collection.delete({ ids: idsToDelete })
DeleteByIds(p) ==
    /\ call[p].pc = "del_ids"
    /\ \E dbOk \in BOOLEAN :
         Outcome(dbOk) /\
         LET c == call[p] IN
         IF ~dbOk
         THEN /\ Finish(p, [c EXCEPT !.fault = "delete"], InternalError)
              /\ UNCHANGED store
         ELSE /\ store' = DeleteIds(store, c.idsToDelete)
              /\ call' = [call EXCEPT ![p] = AfterDelete([c EXCEPT !.issued = @ \cup {"delete"}])]
              /\ UNCHANGED <<failed, lastWrite>>
    /\ UNCHANGED <<options, sysOnly, chunkOnly, restOnly, projects, calls, background, writeOverlap>>

\* the record insertMemoryBankChunk(projectId, fileName, i, chunkText) adds
InsertOf(c, i) ==
    ChunkRecord(<<c.id, i>>, c.projectId, c.fileName, i - 1, c.chunks[i])

\* one insertMemoryBankChunk of the Promise.all completes
InsertLands(p) ==
    /\ call[p].pc = "u_insert"
    /\ \E i \in call[p].pending :
         LET c == call[p]
             left == c.pending \ {i}
         IN  /\ store' = store \cup {InsertOf(c, i)}
             /\ Goto(p, [c EXCEPT !.pending = left],
                     IF left = {} THEN "touch" ELSE "u_insert")
    /\ UNCHANGED <<options, sysOnly, chunkOnly, restOnly, projects, calls, background, faults, writeOverlap>>

\* one insertMemoryBankChunk fails: Promise.all rejects, the others stay in flight
InsertFails(p) ==
    /\ call[p].pc = "u_insert"
    /\ Outcome(FALSE)
    /\ \E i \in call[p].pending :
         LET c == call[p] IN
         /\ background' = background \cup {InsertOf(c, j) : j \in c.pending \ {i}}
         /\ Finish(p, [c EXCEPT !.fault = "insert", !.pending = {}], InternalError)
    /\ UNCHANGED <<options, sysOnly, chunkOnly, restOnly, projects, store, calls, writeOverlap>>

\* an insert left in flight completes, or fails, after its handler has thrown
BackgroundInsert ==
    /\ \E r \in background :
         /\ background' = background \ {r}
         /\ \E dbOk \in BOOLEAN :
              /\ Outcome(dbOk)
              /\ store' = IF dbOk THEN store \cup {r} ELSE store
    /\ UNCHANGED <<options, sysOnly, chunkOnly, restOnly, projects, call, calls, writeOverlap, failed, lastWrite>>

\* await this.projectService.updateLastModified(projectId)
Touch(p) ==
    /\ call[p].pc = "touch"
    /\ \E dbOk \in BOOLEAN :
         Outcome(dbOk) /\
         LET c == call[p] IN
         IF dbOk THEN Finish(p, c, Ok(<<>>))
         ELSE Finish(p, [c EXCEPT !.fault = "touch"], InternalError)
    /\ UNCHANGED <<options, sysOnly, chunkOnly, restOnly, projects, store, calls, background, writeOverlap>>

\* the complete chunk lists a reader of (projectId, fileName) may be shown
CompleteSets(projectId, fileName) ==
    {lastWrite[projectId, fileName].chunks}
    \cup {IF call[q].op = "update" THEN call[q].chunks ELSE <<>> :
            q \in {r \in Procs : /\ Writing(call[r])
                                 /\ call[r].pc # "exists"
                                 /\ call[r].projectId = projectId
                                 /\ call[r].fileName = fileName}}

\* getFileContent: the fetch, the sort, the join
Fetch(p) ==
    /\ call[p].pc = "g_fetch"
    /\ \E dbOk \in BOOLEAN :
         Outcome(dbOk) /\
         LET c == call[p]
             found == FileChunks(store, c.projectId, c.fileName)
             seen == [c EXCEPT !.allowed = CompleteSets(c.projectId, c.fileName),
                               !.fetched = found,
                               !.quiet = ((\A q \in Procs : ~Writing(call[q])) /\ background = {}),
                               !.lastAtFetch = lastWrite[c.projectId, c.fileName]]
         IN  IF ~dbOk THEN Finish(p, [c EXCEPT !.fault = "fetch"], FetchFailedResult)
             ELSE \E rows \in Orders(found) :
                    Finish(p, [seen EXCEPT !.fault = IF found = {} THEN "zero" ELSE "none"],
                           GetFileContentResult(getMemoryBankChunksByFile(rows)))
    /\ UNCHANGED <<options, sysOnly, chunkOnly, restOnly, projects, store, calls, background, writeOverlap>>

---------------------------------------------------------------------------
(* EmbeddingService: the model handles and their guards *)

\* the fields of the singleton; started, loads and completed are history:
\* the calls of initialize() so far, the model files loaded so far, and
\* whether some initialize() has run to its end
EmbedderNew ==
    [isInitialized |-> FALSE, extractor |-> FALSE, tokenizer |-> FALSE,
     started |-> 0, loads |-> 0, completed |-> FALSE]

\* the singleton after server.ts has awaited initialize()
EmbedderLoaded ==
    [isInitialized |-> TRUE, extractor |-> TRUE, tokenizer |-> TRUE,
     started |-> 1, loads |-> 2, completed |-> TRUE]

\* a guard that looks at the handle only
ExtractorReady_HandleOnly(e) == e.extractor

\* generateEmbedding, line 641: !this.isInitialized || !this.extractor
ExtractorReady(e) == e.isInitialized /\ e.extractor

\* chunkText, line 773: !this.isInitialized || !this.tokenizer
TokenizerReady(e) == e.isInitialized /\ e.tokenizer

---------------------------------------------------------------------------
(* _splitTextWithTokenizer as a process: one path of its call tree, and    *)
(* the steps of the token-window loop at the end of the path               *)

\* the budgets a caller may pass, chunkOverlap >= chunkSize among them
SplitOptionSet ==
    { Opt(SmallChunkSize, 0),
      Opt(SmallChunkSize, SmallChunkOverlap),
      Opt(WideChunkSize, SmallChunkOverlap),
      Opt(SmallChunkOverlap, SmallChunkOverlap),
      Opt(SmallChunkOverlap, SmallChunkSize) }

SplitDocs == UNION {[1..n -> Alphabet] : n \in 0..MaxSplitDocLen}

\* a letter, a punctuation mark and the space
LoopAlphabet == {"a", ".", " "}

LoopDocs == UNION {[1..n -> LoopAlphabet] : n \in 0..MaxLoopDocLen}

\* Array.prototype.slice(start, end): a negative index counts from the end
sliceFrom(s, start, end) ==
    LET n == Len(s)
        from == IF start < 0 THEN Max({n + start, 0}) ELSE Min({start, n})
        to == IF end < 0 THEN Max({n + end, 0}) ELSE Min({end, n})
    IN  SubSeq(s, from + 1, to)

RECURSIVE SubCallLoop(_, _, _, _, _)
\* the for loop over splits, for the recursive calls it makes;
\* st = [made, currentChunk, currentChunkTokens]
SubCallLoop(splits, i, st, opts, separator) ==
    IF i > Len(splits) THEN st.made
    ELSE
    LET sp == splits[i]
        splitWithSeparator == IF i > 1 /\ separator # <<>> THEN separator \o sp ELSE sp
        splitTokens == tokenCount(splitWithSeparator)
        overlapStartIndex ==
            Max({0, Len(st.currentChunk) - opts.chunkOverlap * OverlapCharsPerToken})
        newChunk == substring(st.currentChunk, overlapStartIndex) \o splitWithSeparator
        newTokens == tokenCount(newChunk)
        after ==
            IF splitTokens > opts.chunkSize
            THEN \* a single split is too large: recurse on it
                 [made |-> st.made \cup {[text |-> sp, via |-> "oversized"]},
                  currentChunk |-> <<>>, currentChunkTokens |-> 0]
            ELSE IF st.currentChunkTokens + splitTokens <= opts.chunkSize
            THEN [made |-> st.made,
                  currentChunk |-> st.currentChunk \o splitWithSeparator,
                  currentChunkTokens |-> st.currentChunkTokens + splitTokens]
            ELSE IF newTokens > opts.chunkSize
            THEN \* the overlap makes the new chunk too large: recurse on the split
                 [made |-> st.made \cup {[text |-> splitWithSeparator, via |-> "overlap"]},
                  currentChunk |-> <<>>, currentChunkTokens |-> 0]
            ELSE [made |-> st.made, currentChunk |-> newChunk, currentChunkTokens |-> newTokens]
    IN  \* the next iteration, on the loop variables as they now are
        CHOOSE made \in {SubCallLoop(splits, i + 1, next, opts, separator) : next \in {after}} : TRUE

\* the recursive calls one call of _splitTextWithTokenizer makes
SubCalls(text, opts, seps) ==
    IF Head(seps) = <<>> THEN {}
    ELSE UNION {SubCallLoop(splits, 1,
                            [made |-> {}, currentChunk |-> <<>>, currentChunkTokens |-> 0],
                            opts, Head(seps)) : splits \in {split(text, Head(seps))}}

\* a call of _splitTextWithTokenizer(text, options, tokenizer, seps)
Frame(text, seps, depth, via) ==
    [pc |-> "call", text |-> text, seps |-> seps, depth |-> depth, via |-> via,
     tokenIds |-> <<>>, i |-> 0, steps |-> 0, windows |-> <<>>, finalChunks |-> <<>>]

\* chunkText's call: a document, the default separators
SplitCall ==
    /\ descent.pc = "idle"
    /\ \E content \in SplitDocs :
         /\ doc' = content
         /\ descent' = Frame(content, separators, 0, "chunkText")
    /\ UNCHANGED <<options, sysOnly, chunks, phase, svcOnly, embedder, initializing, entry, search>>

\* the loop reaches a split it recurses on; the callee is followed
Descend ==
    /\ descent.pc = "call"
    /\ descent.depth < Len(separators)
    /\ \E sub \in SubCalls(descent.text, options, descent.seps) :
         descent' = Frame(sub.text, RemainingSeparators(descent.seps), descent.depth + 1, sub.via)
    /\ UNCHANGED <<options, sysOnly, chunkOnly, svcOnly, embedder, initializing, entry, search>>

\* a call that recurses on no split runs its loop to the end and returns
LoopReturns ==
    /\ descent.pc = "call"
    /\ Head(descent.seps) # <<>>
    /\ SubCalls(descent.text, options, descent.seps) = {}
    /\ descent' = [descent EXCEPT !.pc = "returned"]
    /\ UNCHANGED <<options, sysOnly, chunkOnly, svcOnly, embedder, initializing, entry, search>>

\* the empty separator: lines 691-695
EnterWindows ==
    /\ descent.pc = "call"
    /\ Head(descent.seps) = <<>>
    /\ descent' = IF Len(descent.text) = 0 THEN [descent EXCEPT !.pc = "returned"]
                  ELSE [descent EXCEPT !.pc = "window", !.tokenIds = encode(descent.text)]
    /\ UNCHANGED <<options, sysOnly, chunkOnly, svcOnly, embedder, initializing, entry, search>>

\* one iteration of for (let i = 0; i < tokenIds.length; i += chunkSize - chunkOverlap);
\* the model stops following a loop that has made more windows than there are tokens
WindowStep ==
    /\ descent.pc = "window"
    /\ descent.i < Len(descent.tokenIds)
    /\ descent.steps <= Len(descent.tokenIds)
    /\ LET chunkTokenIds == sliceFrom(descent.tokenIds, descent.i, descent.i + options.chunkSize)
       IN  descent' = [descent EXCEPT
                          !.i = @ + options.chunkSize - options.chunkOverlap,
                          !.steps = @ + 1,
                          !.windows = IF Len(chunkTokenIds) > 0
                                      THEN Append(@, chunkTokenIds) ELSE @,
                          !.finalChunks = IF Len(chunkTokenIds) > 0
                                          THEN Append(@, decode(chunkTokenIds)) ELSE @]
    /\ UNCHANGED <<options, sysOnly, chunkOnly, svcOnly, embedder, initializing, entry, search>>

\* the loop condition fails: return finalChunks
WindowsReturn ==
    /\ descent.pc = "window"
    /\ descent.i >= Len(descent.tokenIds)
    /\ descent' = [descent EXCEPT !.pc = "returned"]
    /\ UNCHANGED <<options, sysOnly, chunkOnly, svcOnly, embedder, initializing, entry, search>>

---------------------------------------------------------------------------
(* _splitTextWithTokenizer's for loop over splits, one iteration per step; *)
(* a recursive call is either run to its result or entered                 *)

\* the budgets under which the loop is followed: chunkOverlap < chunkSize
LoopOptionSet ==
    { Opt(SmallChunkSize, 0),
      Opt(SmallChunkSize, SmallChunkOverlap),
      Opt(WideChunkSize, SmallChunkOverlap) }

\* an overlap measured in tokens, not in characters
OverlapStart_Tokens(currentChunk, opts) ==
    Max({0, Len(currentChunk) - opts.chunkOverlap})

\* line 738: Math.max(0, currentChunk.length - Math.floor(chunkOverlap * 4))
OverlapStart(currentChunk, opts) ==
    Max({0, Len(currentChunk) - opts.chunkOverlap * OverlapCharsPerToken})

\* no iteration has run yet
NoIteration ==
    [branch |-> "none", splitWithSeparator |-> <<>>, splitTokens |-> 0,
     currentChunk |-> <<>>, currentChunkTokens |-> 0, finalChunks |-> <<>>,
     closed |-> <<>>, overlapText |-> <<>>, seeded |-> <<>>, seededTokens |-> 0,
     recursedOn |-> <<>>, recursedSeps |-> <<>>, subChunks |-> <<>>]

\* a call of _splitTextWithTokenizer(text, options, tokenizer, seps) before its loop:
\* lines 683-708
LoopFrame(text, seps, depth) ==
    [pc |-> "loop", text |-> text, seps |-> seps, depth |-> depth,
     splits |-> IF Head(seps) = <<>> THEN <<>> ELSE split(text, Head(seps)),
     i |-> 0, finalChunks |-> <<>>, currentChunk |-> <<>>, currentChunkTokens |-> 0,
     last |-> NoIteration]

\* the body of the loop for splits[i]: lines 711-755.  The result holds the
\* loop variables the body started from (currentChunk, currentChunkTokens,
\* finalChunks) and the locals it computed.
Iteration(f, opts) ==
    LET separator == Head(f.seps)
        remainingSeparators == RemainingSeparators(f.seps)
        sp == f.splits[f.i + 1]
        splitWithSeparator == IF f.i > 0 /\ separator # <<>> THEN separator \o sp ELSE sp
        splitTokens == tokenCount(splitWithSeparator)
        entered == [NoIteration EXCEPT
                       !.splitWithSeparator = splitWithSeparator,
                       !.splitTokens = splitTokens,
                       !.currentChunk = f.currentChunk,
                       !.currentChunkTokens = f.currentChunkTokens,
                       !.finalChunks = f.finalChunks]
        closed == IF HasNonWhitespace(f.currentChunk)
                  THEN Append(f.finalChunks, f.currentChunk)
                  ELSE f.finalChunks
        overlapText == substring(f.currentChunk, OverlapStart(f.currentChunk, opts))
        seeded == overlapText \o splitWithSeparator
        full == [entered EXCEPT
                    !.closed = closed, !.overlapText = overlapText,
                    !.seeded = seeded, !.seededTokens = tokenCount(seeded)]
    IN  IF splitTokens > opts.chunkSize
        THEN [entered EXCEPT !.branch = "oversized",
                             !.recursedOn = sp, !.recursedSeps = remainingSeparators]
        ELSE IF f.currentChunkTokens + splitTokens <= opts.chunkSize
        THEN [entered EXCEPT !.branch = "append"]
        ELSE IF tokenCount(seeded) > opts.chunkSize
        THEN [full EXCEPT !.branch = "overflow",
                          !.recursedOn = splitWithSeparator,
                          !.recursedSeps = remainingSeparators]
        ELSE [full EXCEPT !.branch = "seed"]

\* chunkText's call: a document, the default separators
LoopCall ==
    /\ descent.pc = "idle"
    /\ \E content \in LoopDocs :
         /\ doc' = content
         /\ descent' = LoopFrame(content, separators, 0)
    /\ UNCHANGED <<options, sysOnly, chunks, phase, svcOnly, embedder, initializing, entry, search>>

\* one iteration of the loop; a recursive call it makes runs to its result
LoopIterate ==
    /\ descent.pc = "loop"
    /\ Head(descent.seps) # <<>>
    /\ descent.i < Len(descent.splits)
    /\ LET it == Iteration(descent, options)
           subChunks == splitTextWithTokenizer(it.recursedOn, options, it.recursedSeps)
       IN  descent' =
             CASE it.branch = "oversized" ->
                    [descent EXCEPT !.i = @ + 1,
                                    !.finalChunks = @ \o subChunks,
                                    !.currentChunk = <<>>, !.currentChunkTokens = 0,
                                    !.last = [it EXCEPT !.subChunks = subChunks]]
               [] it.branch = "append" ->
                    [descent EXCEPT !.i = @ + 1,
                                    !.currentChunk = @ \o it.splitWithSeparator,
                                    !.currentChunkTokens = @ + it.splitTokens,
                                    !.last = it]
               [] it.branch = "overflow" ->
                    [descent EXCEPT !.i = @ + 1,
                                    !.finalChunks = it.closed \o subChunks,
                                    !.currentChunk = <<>>, !.currentChunkTokens = 0,
                                    !.last = [it EXCEPT !.subChunks = subChunks]]
               [] it.branch = "seed" ->
                    [descent EXCEPT !.i = @ + 1,
                                    !.finalChunks = it.closed,
                                    !.currentChunk = it.seeded,
                                    !.currentChunkTokens = it.seededTokens,
                                    !.last = it]
    /\ UNCHANGED <<options, sysOnly, chunkOnly, svcOnly, embedder, initializing, entry, search>>

\* an iteration that recurses (line 716 or 751); the callee is followed
LoopInto ==
    /\ descent.pc = "loop"
    /\ Head(descent.seps) # <<>>
    /\ descent.i < Len(descent.splits)
    /\ LET it == Iteration(descent, options)
       IN  /\ it.branch \in {"oversized", "overflow"}
           /\ descent' = LoopFrame(it.recursedOn, it.recursedSeps, descent.depth + 1)
    /\ UNCHANGED <<options, sysOnly, chunkOnly, svcOnly, embedder, initializing, entry, search>>

\* the empty separator: the token windows of the text, lines 690-701
LoopBase ==
    /\ descent.pc = "loop"
    /\ Head(descent.seps) = <<>>
    /\ descent' = [descent EXCEPT
                      !.pc = "returned",
                      !.finalChunks = IF Len(descent.text) = 0 THEN <<>>
                                      ELSE TokenWindows(encode(descent.text), 0, options)]
    /\ UNCHANGED <<options, sysOnly, chunkOnly, svcOnly, embedder, initializing, entry, search>>

\* after the loop: the last remaining chunk, lines 758-762
LoopDone ==
    /\ descent.pc = "loop"
    /\ Head(descent.seps) # <<>>
    /\ descent.i >= Len(descent.splits)
    /\ descent' = [descent EXCEPT
                      !.pc = "returned",
                      !.finalChunks = IF HasNonWhitespace(descent.currentChunk)
                                      THEN Append(@, descent.currentChunk) ELSE @]
    /\ UNCHANGED <<options, sysOnly, chunkOnly, svcOnly, embedder, initializing, entry, search>>

---------------------------------------------------------------------------
(* MemoryBankService.listFiles *)

RECURSIVE Distinct(_)
\* Array.from(new Set(..)): each value once, in the order of first occurrence
Distinct(s) ==
    IF s = <<>> THEN <<>>
    ELSE LET front == Distinct(SubSeq(s, 1, Len(s) - 1))
             last == s[Len(s)]
         IN  IF \E i \in 1..Len(front) : front[i] = last THEN front ELSE Append(front, last)

\* the file name of every row, the Set left out
getDistinctFileNamesByProject_NoSet(rows) ==
    [i \in 1..Len(rows) |-> rows[i].fileName]

\* getDistinctFileNamesByProject on the rows the store returned, in its order
getDistinctFileNamesByProject(rows) ==
    Distinct([i \in 1..Len(rows) |-> rows[i].fileName])

\* listFiles: the project's rows are fetched, their file names returned
ListFiles(p) ==
    /\ call[p].pc = "l_fetch"
    /\ \E dbOk \in BOOLEAN :
         Outcome(dbOk) /\
         LET c == call[p]
             found == {r \in store : r.projectId = c.projectId}
             seen == [c EXCEPT !.fetched = found,
                               !.quiet = ((\A q \in Procs : ~Writing(call[q])) /\ background = {}),
                               !.cleared = {f \in FileNames :
                                               lastWrite[c.projectId, f].chunks = <<>>}]
         IN  IF ~dbOk THEN Finish(p, [c EXCEPT !.fault = "fetch"], InternalError)
             ELSE \E rows \in Orders(found) :
                    Finish(p, seen, Ok(getDistinctFileNamesByProject(rows)))
    /\ UNCHANGED <<options, sysOnly, chunkOnly, restOnly, projects, store, calls, background, writeOverlap>>

---------------------------------------------------------------------------
(* memoryBank_search: the tool's schema, SearchService.search and the two  *)
(* queries of DatabaseService                                              *)

MinTopK == 1
MaxTopK == 20
KeywordCandidateLimit == 100
NullScore == -1

SearchFileNames == {"f1", "f2"}
SearchProjectIds == ProjectIds \cup {"p3"}
SearchTypes == {"semantic", "keyword", "fuzzy"}
TopKs == {0, 1, 2, 3, MaxTopK + 1}
SearchQueries == { <<>>, <<" ">>, <<"a">>, <<"A", "B">> }
FileFilters == { {}, {"f1"}, {"f2"} }

\* the chunk lists a file of the searched store may hold
SearchChunkLists == { <<>>, << <<"b", "a", "b">>, <<"a">> >>, << <<"A", "b">>, <<"b">> >> }

\* String.prototype.toLowerCase
toLowerCase(text) ==
    [i \in 1..Len(text) |-> IF text[i] = "A" THEN "a" ELSE IF text[i] = "B" THEN "b" ELSE text[i]]

\* String.prototype.includes
includes(text, q) ==
    \E i \in 1..(Len(text) - Len(q) + 1) : SubSeq(text, i, i + Len(q) - 1) = q

RECURSIVE trim(_)
\* z.string().trim(): leading and trailing whitespace removed
trim(text) ==
    IF text = <<>> THEN <<>>
    ELSE IF Head(text) \in Spaces THEN trim(Tail(text))
    ELSE IF text[Len(text)] \in Spaces THEN trim(SubSeq(text, 1, Len(text) - 1))
    ELSE text

\* String.prototype.localeCompare on the file names in use
localeCompare(a, b) ==
    LET rank == [f \in SearchFileNames \cup FileNames |-> IF f = "f1" THEN 1 ELSE 2]
    IN  rank[a] - rank[b]

\* the extractor's vector of a text (mean pooling of what its letters mean)
Embedding(text) ==
    << Cardinality({i \in 1..Len(text) : text[i] \in {"a", "A"}}),
       Cardinality({i \in 1..Len(text) : text[i] \in {"b", "B"}}) >>

\* the store's distance between two vectors (squared L2, Chroma's default)
Distance(u, v) == (u[1] - v[1]) * (u[1] - v[1]) + (u[2] - v[2]) * (u[2] - v[2])

\* a where clause without the project condition
WhereClause_AnyProject(st, projectId, fileFilter) ==
    {c \in st : fileFilter = {} \/ c.fileName \in fileFilter}

\* where: { project_id, file_name: { $in: fileFilter } }, the file condition
\* only when a non-empty filter is given
WhereClause(st, projectId, fileFilter) ==
    {c \in st : c.projectId = projectId /\ (fileFilter = {} \/ c.fileName \in fileFilter)}

RECURSIVE Without(_, _)
\* the sets left when n rows are taken out of S
Without(S, n) ==
    IF n = 0 THEN {S} ELSE UNION {Without(S \ {x}, n - 1) : x \in S}

\* a get that keeps one row only (limit: 1, as the project lookups pass)
CandidatePools_Limit1(rows, limit) ==
    IF rows = {} THEN {{}} ELSE {{x} : x \in rows}

\* collection.get({ where, limit }): the sets of rows a get may return, the
\* limit many of them when more rows satisfy the where clause
CandidatePools(rows, limit) ==
    IF Cardinality(rows) <= limit THEN {rows}
    ELSE Without(rows, Cardinality(rows) - limit)

\* one order of a set of rows of one project: by file name and chunk index
SomeOrder(S) ==
    LET before(a, b) == \/ localeCompare(a.fileName, b.fileName) < 0
                        \/ a.fileName = b.fileName /\ a.chunkIndex < b.chunkIndex
        ranked == {<<Cardinality({s \in S : before(s, r)}), r>> : r \in S}
    IN  [k \in 1..Cardinality(S) |-> (CHOOSE pr \in ranked : pr[1] = k - 1)[2]]

\* the orders in which a get may return its rows: every order of a few rows,
\* one order of many
RowOrders(S) == IF Cardinality(S) <= MaxShuffled THEN Orders(S) ELSE {SomeOrder(S)}

\* collection.query({ nResults }): the sets of nResults nearest rows
NearestSets(rows, queryEmbedding, nResults) ==
    {R \in SUBSET rows :
        /\ Cardinality(R) = Min({nResults, Cardinality(rows)})
        /\ \A r \in R : \A s \in rows \ R :
             Distance(queryEmbedding, Embedding(r.chunkText))
                 <= Distance(queryEmbedding, Embedding(s.chunkText))}

\* Array.prototype.slice(0, n)
slice(s, n) == SubSeq(s, 1, Min({n, Len(s)}))

\* SearchService.search, lines 79-84: a row as a SearchResult
SearchResult(c, score) ==
    [text |-> c.chunkText, fileName |-> c.fileName, chunkIndex |-> c.chunkIndex, score |-> score]

\* semanticSearchChunks, lines 485-502: the rows with their distances
semanticSearchChunks(rows, queryEmbedding) ==
    [i \in 1..Len(rows) |->
        SearchResult(rows[i], Distance(queryEmbedding, Embedding(rows[i].chunkText)))]

RECURSIVE InsertByScore(_, _)
InsertByScore(r, sorted) ==
    IF sorted = <<>> THEN <<r>>
    ELSE IF r.score < Head(sorted).score THEN <<r>> \o sorted
    ELSE <<Head(sorted)>> \o InsertByScore(r, Tail(sorted))

RECURSIVE SortByScore(_)
\* results.sort((a, b) => a.score - b.score): stable
SortByScore(rs) ==
    IF rs = <<>> THEN <<>>
    ELSE InsertByScore(rs[Len(rs)], SortByScore(SubSeq(rs, 1, Len(rs) - 1)))

\* the semantic results as the store returned them, the sort left out
SemanticResults_NoSort(rows, queryEmbedding) ==
    semanticSearchChunks(rows, queryEmbedding)

\* SearchService.search, semantic branch after the query: lines 79-89
SemanticResults(rows, queryEmbedding) ==
    SortByScore(semanticSearchChunks(rows, queryEmbedding))

\* keywordSearchChunks' comparator: file name, then chunkIndex
KeywordBefore(a, b) ==
    IF a.fileName # b.fileName THEN localeCompare(a.fileName, b.fileName) < 0
    ELSE a.chunkIndex < b.chunkIndex

RECURSIVE InsertByFile(_, _)
InsertByFile(r, sorted) ==
    IF sorted = <<>> THEN <<r>>
    ELSE IF KeywordBefore(r, Head(sorted)) THEN <<r>> \o sorted
    ELSE <<Head(sorted)>> \o InsertByFile(r, Tail(sorted))

RECURSIVE SortByFileAndIndex(_)
SortByFileAndIndex(rs) ==
    IF rs = <<>> THEN <<>>
    ELSE InsertByFile(rs[Len(rs)], SortByFileAndIndex(SubSeq(rs, 1, Len(rs) - 1)))

\* keywordSearchChunks, lines 528-545: the candidates whose text contains the query
KeywordMatches(candidates, query) ==
    LET lowerCaseQuery == toLowerCase(query)
        hit == SelectSeq(candidates, LAMBDA c : includes(toLowerCase(c.chunkText), lowerCaseQuery))
    IN  [i \in 1..Len(hit) |-> SearchResult(hit[i], NullScore)]

\* the matches cut to topK in the order the store returned them
keywordSearchChunks_SliceFirst(candidates, query, topK) ==
    SortByFileAndIndex(slice(KeywordMatches(candidates, query), topK))

\* keywordSearchChunks, lines 521-555, on the rows the store returned
keywordSearchChunks(candidates, query, topK) ==
    slice(SortByFileAndIndex(KeywordMatches(slice(candidates, KeywordCandidateLimit), query)), topK)

\* TOOL_PARAMS_SEARCH: what the schema lets through to the handler
ZodAccepts(query, searchType, topK) ==
    /\ Len(trim(query)) >= 1
    /\ searchType \in {"semantic", "keyword"}
    /\ topK \in MinTopK..MaxTopK

\* SearchService.search, line 56: !query || !searchType || !topK
MissingParams(query, searchType, topK) ==
    query = <<>> \/ searchType = "" \/ topK = 0

IdleSearch ==
    [pc |-> "idle", projectId |-> "", query |-> <<>>, searchType |-> "", topK |-> 0,
     fileFilter |-> {}, queryEmbedding |-> <<0, 0>>, issued |-> {},
     matching |-> {}, returned |-> <<>>, fault |-> "none", result |-> NoResult]

SearchDone(s, fault, res) ==
    search' = [s EXCEPT !.pc = "done", !.fault = fault, !.result = res]

\* generateEmbedding's guard and catch: McpError(InternalError), re-thrown by search
EmbedFailedResult == InternalError

\* a failed store query returned as "no results"
QueryFailedResult_Empty == Ok(<<>>)

\* semanticSearchChunks' and keywordSearchChunks' catch: McpError(InternalError)
QueryFailedResult == InternalError

\* a missing project answered with an empty result list
ProjectMissingResult_Empty == Ok(<<>>)

\* SearchService.search, lines 51-53
ProjectMissingResult == InvalidParams

\* the schema check left to the service
SchemaRejects_ServiceOnly(query, searchType, topK) == FALSE

\* server.tool(TOOL_PARAMS_SEARCH): the arguments fail the schema
SchemaRejects(query, searchType, topK) == ~ZodAccepts(query, searchType, topK)

\* the memoryBank_search tool is called: the schema is checked, accepted
\* arguments (the query trimmed) reach SearchService.search
SearchRequest ==
    /\ search.pc = "idle"
    /\ \E projectId \in SearchProjectIds, query \in SearchQueries, searchType \in SearchTypes,
          topK \in TopKs, fileFilter \in FileFilters :
         LET s == [search EXCEPT !.projectId = projectId, !.query = trim(query),
                                 !.searchType = searchType, !.topK = topK,
                                 !.fileFilter = fileFilter]
         IN  IF SchemaRejects(query, searchType, topK)
             THEN SearchDone([s EXCEPT !.query = query], "schema", InvalidParams)
             ELSE search' = [s EXCEPT !.pc = "exists"]
    /\ UNCHANGED <<options, sysOnly, chunkOnly, svcOnly, embedder, initializing, entry, descent>>

\* search, lines 51-76: projectExists, then the checks made before the first
\* call to the embedder or to the chunk store
SearchProjectExists ==
    /\ search.pc = "exists"
    /\ \E dbOk \in BOOLEAN :
         Outcome(dbOk) /\
         LET s == [search EXCEPT !.issued = @ \cup {"lookup"}] IN
         IF ~dbOk THEN SearchDone(s, "exists", InternalError)
         ELSE IF ~ProjectFound(s.projectId) THEN SearchDone(s, "no_project", ProjectMissingResult)
         ELSE IF MissingParams(s.query, s.searchType, s.topK)
         THEN SearchDone(s, "missing", InvalidParams)
         ELSE CASE s.searchType = "semantic" -> search' = [s EXCEPT !.pc = "embed"]
                [] s.searchType = "keyword" -> search' = [s EXCEPT !.pc = "keyword"]
                [] OTHER -> SearchDone(s, "type", InvalidParams)
    /\ UNCHANGED <<options, sysOnly, chunkOnly, projects, store, call, calls, background,
                   writeOverlap, failed, lastWrite, embedder, initializing, entry, descent>>

\* await this.embeddingService.generateEmbedding(query)
SearchEmbed ==
    /\ search.pc = "embed"
    /\ \E ok \in BOOLEAN :
         Outcome(ok) /\
         LET s == [search EXCEPT !.issued = @ \cup {"embed"}] IN
         IF ~ExtractorReady(embedder) THEN ok /\ SearchDone(s, "not_ready", EmbedFailedResult)
         ELSE IF ~ok THEN SearchDone(s, "embed", EmbedFailedResult)
         ELSE search' = [s EXCEPT !.pc = "semantic", !.queryEmbedding = Embedding(s.query)]
    /\ UNCHANGED <<options, sysOnly, chunkOnly, projects, store, call, calls, background,
                   writeOverlap, failed, lastWrite, embedder, initializing, entry, descent>>

\* await this.dbService.semanticSearchChunks(..), then lines 79-93
SemanticQuery ==
    /\ search.pc = "semantic"
    /\ \E dbOk \in BOOLEAN :
         Outcome(dbOk) /\
         LET matching == WhereClause(store, search.projectId, search.fileFilter)
             s == [search EXCEPT !.issued = @ \cup {"query"}, !.matching = matching]
         IN  IF ~dbOk THEN SearchDone(s, "query", QueryFailedResult)
             ELSE \E R \in NearestSets(matching, s.queryEmbedding, s.topK) :
                    \E rows \in Orders(R) :
                       SearchDone([s EXCEPT !.returned = rows], "none",
                                  Ok(SemanticResults(rows, s.queryEmbedding)))
    /\ UNCHANGED <<options, sysOnly, chunkOnly, projects, store, call, calls, background,
                   writeOverlap, failed, lastWrite, embedder, initializing, entry, descent>>

\* await this.dbService.keywordSearchChunks(..), then lines 79-93
KeywordQuery ==
    /\ search.pc = "keyword"
    /\ \E dbOk \in BOOLEAN :
         Outcome(dbOk) /\
         LET matching == WhereClause(store, search.projectId, search.fileFilter)
             s == [search EXCEPT !.issued = @ \cup {"query"}, !.matching = matching]
         IN  IF ~dbOk THEN SearchDone(s, "query", QueryFailedResult)
             ELSE \E pool \in CandidatePools(matching, KeywordCandidateLimit) :
                    \E rows \in RowOrders(pool) :
                       SearchDone([s EXCEPT !.returned = rows], "none",
                                  Ok(keywordSearchChunks(rows, s.query, s.topK)))
    /\ UNCHANGED <<options, sysOnly, chunkOnly, projects, store, call, calls, background,
                   writeOverlap, failed, lastWrite, embedder, initializing, entry, descent>>

\* initialize() has not been called
IdleInit == [pc |-> "idle", afterSuccess |-> FALSE, loaded |-> 0]

\* no entry point of EmbeddingService has been called yet
NoEntry == [fn |-> "none", arg |-> <<>>, ready |-> FALSE, result |-> NoResult]

\* no call of the splitter is being followed
IdleSplit == [Frame(<<>>, <<>>, 0, "none") EXCEPT !.pc = "idle"]

\* the state of what a specification does not exercise
RestIdle ==
    /\ embedder = EmbedderLoaded
    /\ initializing = IdleInit
    /\ entry = NoEntry
    /\ search = IdleSearch
    /\ descent = IdleSplit

---------------------------------------------------------------------------
(* EmbeddingService.initialize and the entry points it guards.  The calls  *)
(* of initialize follow one another, as server.ts awaits its call; the     *)
(* entry points may be called in any state.                                *)

\* the catch of initialize, lines 627-629
InitFailed(e) == [e EXCEPT !.isInitialized = FALSE, !.extractor = FALSE, !.tokenizer = FALSE]

\* initialize() is called
Initialize ==
    /\ initializing.pc \in {"idle", "returned", "thrown"}
    /\ embedder.started < MaxInits
    /\ embedder' = [embedder EXCEPT !.started = @ + 1]
    /\ initializing' = [pc |-> IF embedder.isInitialized THEN "returned" ELSE "pipeline",
                        afterSuccess |-> embedder.completed, loaded |-> 0]
    /\ UNCHANGED <<options, sysOnly, chunkOnly, svcOnly, entry, search, descent>>

\* this.extractor = await pipeline('feature-extraction', this.modelName)
LoadPipeline ==
    /\ initializing.pc = "pipeline"
    /\ \E ok \in BOOLEAN :
         /\ Outcome(ok)
         /\ IF ok
            THEN /\ embedder' = [embedder EXCEPT !.extractor = TRUE, !.loads = @ + 1]
                 /\ initializing' = [initializing EXCEPT !.pc = "tokenizer", !.loaded = @ + 1]
            ELSE /\ embedder' = InitFailed(embedder)
                 /\ initializing' = [initializing EXCEPT !.pc = "thrown"]
    /\ UNCHANGED <<options, sysOnly, chunkOnly, projects, store, call, calls, background,
                   writeOverlap, failed, lastWrite, entry, search, descent>>

\* this.tokenizer = await AutoTokenizer.from_pretrained(..); this.isInitialized = true
LoadTokenizer ==
    /\ initializing.pc = "tokenizer"
    /\ \E ok \in BOOLEAN :
         /\ Outcome(ok)
         /\ IF ok
            THEN /\ embedder' = [embedder EXCEPT !.tokenizer = TRUE, !.isInitialized = TRUE,
                                                 !.loads = @ + 1, !.completed = TRUE]
                 /\ initializing' = [initializing EXCEPT !.pc = "returned", !.loaded = @ + 1]
            ELSE /\ embedder' = InitFailed(embedder)
                 /\ initializing' = [initializing EXCEPT !.pc = "thrown"]
    /\ UNCHANGED <<options, sysOnly, chunkOnly, projects, store, call, calls, background,
                   writeOverlap, failed, lastWrite, entry, search, descent>>

\* chunkText(content) is called
EntryChunkText ==
    /\ \E content \in ServiceContents :
         entry' = [fn |-> "chunkText", arg |-> content, ready |-> embedder.completed,
                   result |-> IF TokenizerReady(embedder) THEN Ok(chunkText(content))
                              ELSE InternalError]
    /\ UNCHANGED <<options, sysOnly, chunkOnly, svcOnly, embedder, initializing, search, descent>>

\* generateEmbedding(text) is called
EntryGenerateEmbedding ==
    /\ \E text \in ServiceContents, ok \in BOOLEAN :
         /\ IF ExtractorReady(embedder) THEN Outcome(ok) ELSE ok /\ faults' = faults
         /\ entry' = [fn |-> "generateEmbedding", arg |-> text, ready |-> embedder.completed,
                      result |-> IF ExtractorReady(embedder) /\ ok THEN Ok(Embedding(text))
                                 ELSE InternalError]
    /\ UNCHANGED <<options, sysOnly, chunkOnly, projects, store, call, calls, background,
                   writeOverlap, failed, lastWrite, embedder, initializing, search, descent>>

---------------------------------------------------------------------------
(* ProjectService: createProject, deleteProject and listProjects as        *)
(* request handlers, one action per await                                  *)

\* the names createProject is called with: a seeded project's, and a new one
ProjectNames == {"np1", "nx"}

\* crypto.randomUUID(): an id no other call gets
NewProjectId(id) == "u" \o ToString(id)

\* findProjectByName(projectName) !== null
NameFound(projectName) == \E q \in projects : projectNames[q] = projectName

\* a content delete that removes nothing
DeleteProjectChunks_None(st, projectId) == st

\* collection.delete({ where: { project_id } })
DeleteProjectChunks(st, projectId) == {c \in st : c.projectId # projectId}

\* createProject, lines 34-39: the name is looked up before anything is added
NameTaken(projectName) == NameFound(projectName)

ProjectFrame == UNCHANGED <<options, chunkOnly, restOnly, database, server, calls, background,
                            writeOverlap>>

\* memoryBank_createProject / deleteProject / listProjects is invoked
StartProject(p) ==
    /\ call[p].pc \in {"idle", "done"}
    /\ calls < MaxCalls
    /\ \/ \E projectName \in ProjectNames :
            /\ call' = [call EXCEPT ![p] =
                          [IdleCall EXCEPT !.pc = "c_find", !.op = "createProject",
                                           !.id = calls + 1, !.projectName = projectName,
                                           !.projectId = NewProjectId(calls + 1)]]
            /\ UNCHANGED writeOverlap
       \/ \E projectId \in ProjectIds \cup projects :
            /\ call' = [call EXCEPT ![p] =
                          [IdleCall EXCEPT !.pc = "d_find", !.op = "deleteProject",
                                           !.id = calls + 1, !.projectId = projectId]]
            /\ writeOverlap' =
                 (writeOverlap \/ (\E q \in Procs \ {p} : Writing(call[q])) \/ background # {})
       \/ /\ call' = [call EXCEPT ![p] =
                        [IdleCall EXCEPT !.pc = "lp_get", !.op = "listProjects", !.id = calls + 1]]
          /\ UNCHANGED writeOverlap
    /\ calls' = calls + 1
    /\ UNCHANGED <<options, chunkOnly, restOnly, sysOnly, projects, store, background, faults,
                   failed, lastWrite>>

\* createProject, line 34: await findProjectByName(projectName)
CreateFind(p) ==
    /\ call[p].pc = "c_find"
    /\ \E dbOk \in BOOLEAN :
         Outcome(dbOk) /\
         LET c == call[p] IN
         IF ~dbOk THEN Finish(p, [c EXCEPT !.fault = "find"], InternalError)
         ELSE IF NameTaken(c.projectName)
         THEN Finish(p, [c EXCEPT !.fault = "conflict"], InvalidParams)
         ELSE Goto(p, c, "c_check")
    /\ UNCHANGED <<projects, projectNames, store>>
    /\ ProjectFrame

\* insertProject, lines 246-250: the second lookup; createProject's catch
\* (48-51) turns whatever insertProject throws into InternalError
CreateCheck(p) ==
    /\ call[p].pc = "c_check"
    /\ \E dbOk \in BOOLEAN :
         Outcome(dbOk) /\
         LET c == call[p] IN
         IF ~dbOk THEN Finish(p, [c EXCEPT !.fault = "find"], InternalError)
         ELSE IF NameFound(c.projectName)
         THEN Finish(p, [c EXCEPT !.fault = "late_conflict"], InternalError)
         ELSE Goto(p, c, "c_add")
    /\ UNCHANGED <<projects, projectNames, store>>
    /\ ProjectFrame

\* insertProject, lines 251-261: projectsCollection.add
CreateAdd(p) ==
    /\ call[p].pc = "c_add"
    /\ \E dbOk \in BOOLEAN :
         Outcome(dbOk) /\
         LET c == call[p] IN
         IF ~dbOk
         THEN /\ Finish(p, [c EXCEPT !.fault = "add"], InternalError)
              /\ UNCHANGED <<projects, projectNames>>
         ELSE /\ projects' = projects \cup {c.projectId}
              /\ projectNames' = [q \in projects \cup {c.projectId} |->
                                    IF q = c.projectId THEN c.projectName ELSE projectNames[q]]
              /\ Finish(p, [c EXCEPT !.issued = @ \cup {"add"},
                                     !.quiet = NameFound(c.projectName)],
                        Ok(<<c.projectId>>))
    /\ UNCHANGED store
    /\ ProjectFrame

\* deleteProject, lines 68-73: await findProjectById(projectId)
DeleteProjectFind(p) ==
    /\ call[p].pc = "d_find"
    /\ \E dbOk \in BOOLEAN :
         Outcome(dbOk) /\
         LET c == call[p] IN
         IF ~dbOk THEN Finish(p, [c EXCEPT !.fault = "find"], InternalError)
         ELSE IF ~ProjectFound(c.projectId)
         THEN Finish(p, [c EXCEPT !.fault = "no_project"], InvalidParams)
         ELSE Goto(p, c, "d_chunks")
    /\ UNCHANGED <<projects, projectNames, store>>
    /\ ProjectFrame

\* deleteProject, line 78: await deleteMemoryBankContentByProject(projectId)
DeleteProjectContent(p) ==
    /\ call[p].pc = "d_chunks"
    /\ \E dbOk \in BOOLEAN :
         Outcome(dbOk) /\
         LET c == call[p] IN
         IF ~dbOk
         THEN /\ Finish(p, [c EXCEPT !.fault = "delete"], InternalError)
              /\ UNCHANGED store
         ELSE /\ store' = DeleteProjectChunks(store, c.projectId)
              /\ Goto(p, [c EXCEPT !.issued = @ \cup {"deleteChunks"},
                                   !.cleared = {r.chunkId : r \in store \ store'}],
                      "d_record")
    /\ UNCHANGED <<projects, projectNames>>
    /\ ProjectFrame

\* deleteProject, lines 82-85: await deleteProjectRecord(projectId)
DeleteProjectRecord(p) ==
    /\ call[p].pc = "d_record"
    /\ \E dbOk \in BOOLEAN :
         Outcome(dbOk) /\
         LET c == call[p] IN
         IF ~dbOk
         THEN /\ Finish(p, [c EXCEPT !.fault = "delete"], InternalError)
              /\ UNCHANGED <<projects, projectNames>>
         ELSE /\ projects' = projects \ {c.projectId}
              /\ projectNames' = [q \in projects \ {c.projectId} |-> projectNames[q]]
              /\ Finish(p, [c EXCEPT !.issued = @ \cup {"deleteRecord"}], Ok(<<>>))
    /\ UNCHANGED store
    /\ ProjectFrame

\* the deleteProject calls that have returned success
DeletedProjects ==
    {call[q].projectId : q \in {r \in Procs : /\ call[r].op = "deleteProject"
                                              /\ call[r].pc = "done"
                                              /\ call[r].result.code = "OK"}}

\* listProjects: await getAllProjects()
ListProjects(p) ==
    /\ call[p].pc = "lp_get"
    /\ \E dbOk \in BOOLEAN :
         Outcome(dbOk) /\
         LET c == call[p] IN
         IF ~dbOk THEN Finish(p, [c EXCEPT !.fault = "fetch"], InternalError)
         ELSE \E rows \in Orders(projects) :
                Finish(p, [c EXCEPT !.cleared = DeletedProjects], Ok(rows))
    /\ UNCHANGED <<projects, projectNames, store>>
    /\ ProjectFrame

---------------------------------------------------------------------------
(* server.ts: main, from process start to the connected transport *)

\* registerTools, lines 46-55: the tools in the order they are registered
ToolOrder ==
    << "memoryBank_createProject", "memoryBank_deleteProject", "memoryBank_listProjects",
       "memoryBank_getProjectByName", "memoryBank_updateFile", "memoryBank_getFile",
       "memoryBank_listFiles", "memoryBank_deleteFile", "memoryBank_search",
       "memoryBank_initializeProject" >>
Tools == {ToolOrder[i] : i \in 1..Len(ToolOrder)}

\* the fields of the DatabaseService singleton, and the position of initialize()
DatabaseNew ==
    [pc |-> "idle", isInitialized |-> FALSE, client |-> FALSE,
     projectsCollection |-> FALSE, chunksCollection |-> FALSE]
DatabaseReady ==
    [pc |-> "returned", isInitialized |-> TRUE, client |-> TRUE,
     projectsCollection |-> TRUE, chunksCollection |-> TRUE]

\* the catch of DatabaseService.initialize, line 164
DatabaseFailed ==
    [pc |-> "thrown", isInitialized |-> FALSE, client |-> FALSE,
     projectsCollection |-> FALSE, chunksCollection |-> FALSE]

NoExit == -1
ExitFailure == 1

\* main has just been called; inbox holds what the client has written to stdin
ServerNew ==
    [pc |-> "db_init", registered |-> <<>>, connected |-> FALSE,
     inbox |-> <<>>, handled |-> <<>>, exitCode |-> NoExit]
ServerServing ==
    [ServerNew EXCEPT !.pc = "serving", !.registered = ToolOrder, !.connected = TRUE]

\* main's catch: process.exit(1)
Exit(s) == [s EXCEPT !.pc = "exited", !.exitCode = ExitFailure]

\* a main that logs a failed initialize and carries on
AfterInitialize_Continue(s, outcome, next) == [s EXCEPT !.pc = next]

\* main, lines 13-14 and 30-33: an initialize() that throws ends the process
AfterInitialize(s, outcome, next) ==
    IF outcome = "thrown" THEN Exit(s) ELSE [s EXCEPT !.pc = next]

BootFrame == UNCHANGED <<options, chunkOnly, projectNames, projects, store, call, calls, background,
                         writeOverlap, failed, lastWrite, entry, search, descent>>

\* await databaseService.initialize(): the guard, new ChromaClient
DbInitialize ==
    /\ server.pc = "db_init" /\ database.pc = "idle"
    /\ database' = IF database.isInitialized THEN [database EXCEPT !.pc = "returned"]
                   ELSE [database EXCEPT !.pc = "heartbeat", !.client = TRUE]
    /\ UNCHANGED <<server, embedder, initializing, faults>>
    /\ BootFrame

\* await this.client.heartbeat()
DbHeartbeat ==
    /\ database.pc = "heartbeat"
    /\ \E ok \in BOOLEAN :
         /\ Outcome(ok)
         /\ database' = IF ok THEN [database EXCEPT !.pc = "projects"] ELSE DatabaseFailed
    /\ UNCHANGED <<server, embedder, initializing>>
    /\ BootFrame

\* this.projectsCollection = await getOrCreateCollection(projects)
DbProjectsCollection ==
    /\ database.pc = "projects"
    /\ \E ok \in BOOLEAN :
         /\ Outcome(ok)
         /\ database' = IF ok THEN [database EXCEPT !.pc = "chunks", !.projectsCollection = TRUE]
                        ELSE DatabaseFailed
    /\ UNCHANGED <<server, embedder, initializing>>
    /\ BootFrame

\* this.chunksCollection = await getOrCreateCollection(chunks); isInitialized = true
DbChunksCollection ==
    /\ database.pc = "chunks"
    /\ \E ok \in BOOLEAN :
         /\ Outcome(ok)
         /\ database' = IF ok THEN [database EXCEPT !.pc = "returned", !.chunksCollection = TRUE,
                                                    !.isInitialized = TRUE]
                        ELSE DatabaseFailed
    /\ UNCHANGED <<server, embedder, initializing>>
    /\ BootFrame

\* main resumes after databaseService.initialize()
MainAfterDb ==
    /\ server.pc = "db_init" /\ database.pc \in {"returned", "thrown"}
    /\ server' = AfterInitialize(server, database.pc, "embed_init")
    /\ UNCHANGED <<database, embedder, initializing, faults>>
    /\ BootFrame

\* await embeddingService.initialize()
MainEmbedInitialize ==
    /\ server.pc = "embed_init" /\ initializing.pc = "idle"
    /\ Initialize

\* main resumes after embeddingService.initialize()
MainAfterEmbed ==
    /\ server.pc = "embed_init" /\ initializing.pc \in {"returned", "thrown"}
    /\ server' = AfterInitialize(server, initializing.pc, "create")
    /\ UNCHANGED <<database, embedder, initializing, faults>>
    /\ BootFrame

\* createServer -> registerTools: the next tool of lines 46-55 is registered
RegisterTool ==
    /\ server.pc = "create"
    /\ LET n == Len(server.registered) + 1
       IN  server' = [server EXCEPT !.registered = Append(@, ToolOrder[n]),
                                    !.pc = IF n = Len(ToolOrder) THEN "connect" ELSE "create"]
    /\ UNCHANGED <<database, embedder, initializing, faults>>
    /\ BootFrame

\* await server.connect(transport)
Connect ==
    /\ server.pc = "connect"
    /\ \E ok \in BOOLEAN :
         /\ Outcome(ok)
         /\ server' = IF ok THEN [server EXCEPT !.pc = "serving", !.connected = TRUE]
                      ELSE Exit(server)
    /\ UNCHANGED <<database, embedder, initializing>>
    /\ BootFrame

\* the client writes a tools/call request to the server's stdin
ClientSends ==
    /\ Len(server.inbox) + Len(server.handled) < MaxRequests
    /\ \E tool \in Tools : server' = [server EXCEPT !.inbox = Append(@, tool)]
    /\ UNCHANGED <<database, embedder, initializing, faults>>
    /\ BootFrame

\* the connected transport reads a request and the server runs the tool's handler
HandleRequest ==
    /\ server.pc = "serving" /\ server.connected
    /\ server.inbox # <<>>
    /\ \E k \in 1..Len(server.registered) : server.registered[k] = Head(server.inbox)
    /\ server' = [server EXCEPT !.inbox = Tail(@), !.handled = Append(@, Head(server.inbox))]
    /\ UNCHANGED <<database, embedder, initializing, faults>>
    /\ BootFrame

\* the server is up: both services initialized, tools registered, connected
SysIdle ==
    /\ projectNames = SeedNames(projects)
    /\ database = DatabaseReady
    /\ server = ServerServing

---------------------------------------------------------------------------
(* Spec: the handlers of two connections over one store *)

ServiceIdle ==
    /\ projects = {"p1"}
    /\ store = {}
    /\ call = [p \in Procs |-> IdleCall]
    /\ calls = 0
    /\ background = {}
    /\ faults = 0
    /\ writeOverlap = FALSE
    /\ failed = FALSE
    /\ lastWrite = [pf \in ProjectIds \X FileNames |-> NoWrite]

\* what an earlier run of the server left in the store: a file the requests
\* here do not name, and possibly the file they do, written with SeedContent
OtherFileName == "f0"
SeedContent == <<"a", NL, NL, "b", " ", "b", ".">>
SeedStores ==
    LET other == Stored(-1, "p1", OtherFileName, << <<"b">> >>)
    IN  {other, other \cup Stored(0, "p1", "f1", chunkText(SeedContent))}

Init ==
    /\ options \in ServiceOptions
    /\ doc = <<>>
    /\ chunks = <<>>
    /\ phase = "service"
    /\ projects = {"p1"}
    /\ store \in SeedStores
    /\ call = [p \in Procs |-> IdleCall]
    /\ calls = 0
    /\ background = {}
    /\ faults = 0
    /\ writeOverlap = FALSE
    /\ failed = FALSE
    /\ lastWrite = [pf \in ProjectIds \X FileNames |->
                       IF FileChunks(store, pf[1], pf[2]) = {} THEN NoWrite
                       ELSE [content |-> SeedContent, chunks |-> chunkText(SeedContent)]]
    /\ RestIdle
    /\ SysIdle

Next ==
    \/ \E p \in Procs : Start(p)
    \/ \E p \in Procs : ProjectExists(p)
    \/ \E p \in Procs : Embed(p)
    \/ \E p \in Procs : DeleteGet(p)
    \/ \E p \in Procs : DeleteByIds(p)
    \/ \E p \in Procs : InsertLands(p)
    \/ \E p \in Procs : InsertFails(p)
    \/ BackgroundInsert
    \/ \E p \in Procs : Touch(p)
    \/ \E p \in Procs : Fetch(p)
    \/ \E p \in Procs : ListFiles(p)

Spec == Init /\ [][Next]_vars

---------------------------------------------------------------------------
(* SearchSpec: one memoryBank_search request over a store that holds the   *)
(* chunks of earlier updates                                               *)

SearchStores ==
    {Stored(1, "p1", "f1", a) \cup Stored(2, "p1", "f2", b) \cup Stored(3, "p2", "f1", c) :
        a \in SearchChunkLists, b \in SearchChunkLists, c \in SearchChunkLists}

SearchInit ==
    /\ options \in ServiceOptions
    /\ doc = <<>>
    /\ chunks = <<>>
    /\ phase = "search"
    /\ projects = ProjectIds
    /\ store \in SearchStores
    /\ call = [p \in Procs |-> IdleCall]
    /\ calls = 0
    /\ background = {}
    /\ faults = 0
    /\ writeOverlap = FALSE
    /\ failed = FALSE
    /\ lastWrite = [pf \in ProjectIds \X FileNames |-> NoWrite]
    /\ embedder \in {EmbedderLoaded, EmbedderNew}
    /\ initializing = IdleInit
    /\ entry = NoEntry
    /\ search = IdleSearch
    /\ descent = IdleSplit
    /\ SysIdle

SearchNext ==
    \/ SearchRequest
    \/ SearchProjectExists
    \/ SearchEmbed
    \/ SemanticQuery
    \/ KeywordQuery

SearchSpec == SearchInit /\ [][SearchNext]_vars

---------------------------------------------------------------------------
(* SplitSpec: the splitter's recursion and window loop, step by step;      *)
(* FairSplitSpec: the same, a running call keeps running                   *)

SplitInit ==
    /\ options \in SplitOptionSet
    /\ doc = <<>>
    /\ chunks = <<>>
    /\ phase = "split"
    /\ ServiceIdle
    /\ RestIdle
    /\ SysIdle

SplitNext ==
    \/ SplitCall
    \/ Descend
    \/ LoopReturns
    \/ EnterWindows
    \/ WindowStep
    \/ WindowsReturn

SplitSpec == SplitInit /\ [][SplitNext]_vars

FairSplitSpec == SplitSpec /\ WF_vars(SplitNext)

---------------------------------------------------------------------------
(* EmbedSpec: the EmbeddingService singleton from its construction *)

EmbedInit ==
    /\ options \in ServiceOptions
    /\ doc = <<>>
    /\ chunks = <<>>
    /\ phase = "embedder"
    /\ ServiceIdle
    /\ embedder = EmbedderNew
    /\ initializing = IdleInit
    /\ entry = NoEntry
    /\ search = IdleSearch
    /\ descent = IdleSplit
    /\ SysIdle

EmbedNext ==
    \/ Initialize
    \/ LoadPipeline
    \/ LoadTokenizer
    \/ EntryChunkText
    \/ EntryGenerateEmbedding

EmbedSpec == EmbedInit /\ [][EmbedNext]_vars

---------------------------------------------------------------------------
(* StartSpec: the process from the call of main *)

StartInit ==
    /\ options \in ServiceOptions
    /\ doc = <<>>
    /\ chunks = <<>>
    /\ phase = "start"
    /\ ServiceIdle
    /\ embedder = EmbedderNew
    /\ initializing = IdleInit
    /\ entry = NoEntry
    /\ search = IdleSearch
    /\ descent = IdleSplit
    /\ projectNames = SeedNames(projects)
    /\ database = DatabaseNew
    /\ server = ServerNew

StartNext ==
    \/ DbInitialize
    \/ DbHeartbeat
    \/ DbProjectsCollection
    \/ DbChunksCollection
    \/ MainAfterDb
    \/ MainEmbedInitialize
    \/ LoadPipeline
    \/ LoadTokenizer
    \/ MainAfterEmbed
    \/ RegisterTool
    \/ Connect
    \/ ClientSends
    \/ HandleRequest

StartSpec == StartInit /\ [][StartNext]_vars

---------------------------------------------------------------------------
(* ProjectSpec: the project handlers and updateFileContent, on two         *)
(* connections, over the projects and chunks collections                   *)

ProjectInit ==
    /\ options \in ServiceOptions
    /\ doc = <<>>
    /\ chunks = <<>>
    /\ phase = "projects"
    /\ projects = {"p1"}
    /\ store \in SeedStores
    /\ call = [p \in Procs |-> IdleCall]
    /\ calls = 0
    /\ background = {}
    /\ faults = 0
    /\ writeOverlap = FALSE
    /\ failed = FALSE
    /\ lastWrite = [pf \in ProjectIds \X FileNames |-> NoWrite]
    /\ RestIdle
    /\ SysIdle

\* memoryBank_updateFile is invoked
StartUpdate(p) ==
    /\ Start(p)
    /\ call'[p].op = "update"
    /\ call'[p].content = SeedContent

ProjectNext ==
    \/ \E p \in Procs : StartProject(p)
    \/ \E p \in Procs : CreateFind(p)
    \/ \E p \in Procs : CreateCheck(p)
    \/ \E p \in Procs : CreateAdd(p)
    \/ \E p \in Procs : DeleteProjectFind(p)
    \/ \E p \in Procs : DeleteProjectContent(p)
    \/ \E p \in Procs : DeleteProjectRecord(p)
    \/ \E p \in Procs : ListProjects(p)
    \/ \E p \in Procs : StartUpdate(p)
    \/ \E p \in Procs : ProjectExists(p)
    \/ \E p \in Procs : Embed(p)
    \/ \E p \in Procs : DeleteGet(p)
    \/ \E p \in Procs : DeleteByIds(p)
    \/ \E p \in Procs : InsertLands(p)
    \/ \E p \in Procs : InsertFails(p)
    \/ BackgroundInsert
    \/ \E p \in Procs : Touch(p)

ProjectSpec == ProjectInit /\ [][ProjectNext]_vars

---------------------------------------------------------------------------
(* PoolSpec: one keyword search over a project that holds more chunks than *)
(* a get with limit 100 returns                                            *)

\* file f1 with as many chunks as the candidate limit, two of them (the
\* first and the last) containing "a", and file f2 with one more
LargeStore ==
    Stored(1, "p1", "f1", [i \in 1..KeywordCandidateLimit |->
                             IF i \in {1, KeywordCandidateLimit} THEN <<"a">> ELSE <<"b">>])
    \cup Stored(2, "p1", "f2", << <<"A">> >>)
    \cup Stored(3, "p2", "f1", << <<"a">> >>)

PoolInit ==
    /\ options \in ServiceOptions
    /\ doc = <<>>
    /\ chunks = <<>>
    /\ phase = "pool"
    /\ projects = ProjectIds
    /\ store = LargeStore
    /\ call = [p \in Procs |-> IdleCall]
    /\ calls = 0
    /\ background = {}
    /\ faults = 0
    /\ writeOverlap = FALSE
    /\ failed = FALSE
    /\ lastWrite = [pf \in ProjectIds \X FileNames |-> NoWrite]
    /\ RestIdle
    /\ SysIdle

\* the memoryBank_search tool is called with searchType keyword
KeywordRequest ==
    /\ SearchRequest
    /\ search'.searchType = "keyword"

PoolNext ==
    \/ KeywordRequest
    \/ SearchProjectExists
    \/ KeywordQuery

PoolSpec == PoolInit /\ [][PoolNext]_vars

---------------------------------------------------------------------------
(* FrameSpec: updateFileContent and deleteFileContent over two projects    *)
(* that both exist and both hold chunks                                    *)

FrameStores ==
    LET others == Stored(-1, "p1", OtherFileName, << <<"b">> >>)
                  \cup Stored(-2, "p2", "f1", chunkText(SeedContent))
    IN  {others, others \cup Stored(0, "p1", "f1", chunkText(SeedContent))}

FrameInit ==
    /\ options \in ServiceOptions
    /\ doc = <<>>
    /\ chunks = <<>>
    /\ phase = "frame"
    /\ projects = ProjectIds
    /\ store \in FrameStores
    /\ call = [p \in Procs |-> IdleCall]
    /\ calls = 0
    /\ background = {}
    /\ faults = 0
    /\ writeOverlap = FALSE
    /\ failed = FALSE
    /\ lastWrite = [pf \in ProjectIds \X FileNames |->
                       IF FileChunks(store, pf[1], pf[2]) = {} THEN NoWrite
                       ELSE [content |-> SeedContent, chunks |-> chunkText(SeedContent)]]
    /\ RestIdle
    /\ SysIdle

\* memoryBank_deleteFile is invoked, or memoryBank_updateFile with a
\* document of several chunks or of none
StartWrite(p) ==
    /\ Start(p)
    /\ call'[p].op \in Writes
    /\ call'[p].op = "update" => call'[p].content \in {SeedContent, <<" ">>}

FrameNext ==
    \/ \E p \in Procs : StartWrite(p)
    \/ \E p \in Procs : ProjectExists(p)
    \/ \E p \in Procs : Embed(p)
    \/ \E p \in Procs : DeleteGet(p)
    \/ \E p \in Procs : DeleteByIds(p)
    \/ \E p \in Procs : InsertLands(p)
    \/ \E p \in Procs : InsertFails(p)
    \/ BackgroundInsert
    \/ \E p \in Procs : Touch(p)

FrameSpec == FrameInit /\ [][FrameNext]_vars

---------------------------------------------------------------------------
(* LoopSpec: the splitter's loop over splits, iteration by iteration *)

LoopInit ==
    /\ options \in LoopOptionSet
    /\ doc = <<>>
    /\ chunks = <<>>
    /\ phase = "loop"
    /\ ServiceIdle
    /\ RestIdle
    /\ SysIdle

LoopNext ==
    \/ LoopCall
    \/ LoopIterate
    \/ LoopInto
    \/ LoopBase
    \/ LoopDone

LoopSpec == LoopInit /\ [][LoopNext]_vars

---------------------------------------------------------------------------
(* ChunkSpec: chunkText applied to every bounded document *)

ChunkInit ==
    /\ options \in OptionSet
    /\ doc \in Docs
    /\ chunks = <<>>
    /\ phase = "input"
    /\ ServiceIdle
    /\ RestIdle
    /\ SysIdle

ChunkText ==
    /\ phase = "input"
    /\ chunks' = chunkText(doc)
    /\ phase' = "chunked"
    /\ UNCHANGED <<options, sysOnly, doc, svcOnly, restOnly>>

ChunkNext == ChunkText

ChunkSpec == ChunkInit /\ [][ChunkNext]_vars

---------------------------------------------------------------------------
(* C1: every chunk chunkText returns measures at most chunkSize tokens.    *)
C1_ChunksWithinBudget ==
    phase = "chunked" =>
        \A k \in 1..Len(chunks) : tokenCount(chunks[k]) <= options.chunkSize

RECURSIVE IsSubsequence(_, _)
\* x can be read off y from left to right, skipping characters of y
IsSubsequence(x, y) ==
    IF x = <<>> THEN TRUE
    ELSE IF y = <<>> THEN FALSE
    ELSE IF Head(x) = Head(y) THEN IsSubsequence(Tail(x), Tail(y))
    ELSE IsSubsequence(x, Tail(y))

(* C2: all non-whitespace content of the document appears, in document     *)
(* order, in the concatenation of the chunks (overlap may repeat content). *)
C2_NoContentDropped ==
    phase = "chunked" =>
        IsSubsequence(StripWhitespace(doc), StripWhitespace(Concat(chunks)))

(* C17: chunkText emits no chunk that consists only of whitespace, and     *)
(* returns the empty sequence for an empty or whitespace-only document.    *)
C17_NoWhitespaceOnlyChunk ==
    phase = "chunked" =>
        /\ \A k \in 1..Len(chunks) :
             \E i \in 1..Len(chunks[k]) : chunks[k][i] \notin {" ", NL}
        /\ (\A i \in 1..Len(doc) : doc[i] \in {" ", NL}) => chunks = <<>>


---------------------------------------------------------------------------
(* Claims about the splitter's loops, checked under SplitSpec and          *)
(* FairSplitSpec                                                           *)

C19_RecursionTerminates ==
    /\ [](descent.pc # "idle" =>
            /\ descent.depth < Len(separators)
            /\ Len(descent.seps) = Len(separators) - descent.depth
            /\ descent.seps[Len(descent.seps)] = <<>>)
    /\ (options.chunkOverlap < options.chunkSize => <>(descent.pc = "returned"))

C19_Witness ==
    /\ descent.pc = "returned"
    /\ options.chunkOverlap < options.chunkSize
    /\ descent.depth = Len(separators) - 1
    /\ descent.via = "overlap"
    /\ Len(descent.finalChunks) >= 1

---------------------------------------------------------------------------
(* Claims about the request handlers, checked under Spec *)

\* no write is in progress and no insert is still on its way
AllQuiet == (\A p \in Procs : ~Writing(call[p])) /\ background = {}

\* call c is the latest request started and no write ever overlapped another
RanAlone(c) == ~writeOverlap /\ c.id = calls /\ background = {}

StoredView(c) == View(FileChunks(store, c.projectId, c.fileName))

(* C3: an update whose embedding failed reports InternalError, has issued  *)
(* no request to the chunk store, and leaves the file's chunks as they     *)
(* were when it started.                                                   *)
C3_EmbedFailureAborts ==
    \A p \in Procs :
        (call[p].pc = "done" /\ call[p].fault = "embed") =>
            /\ call[p].result = InternalError
            /\ call[p].issued = {}
            /\ RanAlone(call[p]) => StoredView(call[p]) = call[p].before

C3_Witness ==
    \E p \in Procs :
        /\ call[p].pc = "done" /\ call[p].fault = "embed"
        /\ Len(call[p].chunks) >= 2
        /\ RanAlone(call[p])
        /\ call[p].before # {}

(* C4: after writes that ran one at a time and all succeeded, the stored   *)
(* chunkIndex values of every file are exactly 0..N-1, each once, N being  *)
(* the number of chunks of the last successful write to the file.          *)
C4_ContiguousIndexes ==
    (~writeOverlap /\ ~failed /\ AllQuiet) =>
        \A pf \in ProjectIds \X FileNames :
            LET cs == FileChunks(store, pf[1], pf[2])
                N == Len(lastWrite[pf].chunks)
            IN  /\ Cardinality(cs) = N
                /\ {c.chunkIndex : c \in cs} = 0..(N - 1)

C4_Witness ==
    /\ ~writeOverlap /\ ~failed /\ AllQuiet
    /\ \E p \in Procs :
         /\ call[p].pc = "done" /\ call[p].op = "update" /\ call[p].result.code = "OK"
         /\ Cardinality(call[p].before) >= 2
         /\ Len(call[p].chunks) = 1

(* C5: an update that reports failure leaves the file with its complete    *)
(* previous chunk set or with the complete new one.                        *)
C5_FailedUpdateLeavesOldOrNew ==
    \A p \in Procs :
        (/\ call[p].pc = "done" /\ call[p].op = "update"
         /\ call[p].result.code # "OK"
         /\ RanAlone(call[p])) =>
            StoredView(call[p]) \in {call[p].before, ViewOfList(call[p].chunks)}

\* what getFileContent returns for a complete chunk list
ContentOf(cs) == IF cs = <<>> THEN InvalidParams ELSE Ok(Concat(cs))

(* C6: a getFileContent that runs beside an update of the same file        *)
(* returns the content of the last completed replace or of the new chunk   *)
(* set, complete.                                                          *)
C6_ConcurrentReadSeesCompleteSet ==
    \A p \in Procs :
        (/\ call[p].pc = "done" /\ call[p].op = "get"
         /\ call[p].fault \in {"none", "zero"}
         /\ ~failed /\ ~writeOverlap) =>
            \E cs \in call[p].allowed : call[p].result = ContentOf(cs)

(* C7: when two updates of one file have both reported success, the file   *)
(* holds exactly the chunk list of one of them, no index twice.            *)
C7_LastWriterWins ==
    LET a == call["h1"]
        b == call["h2"]
        cs == FileChunks(store, a.projectId, a.fileName)
    IN  (/\ a.pc = "done" /\ b.pc = "done"
         /\ a.op = "update" /\ b.op = "update"
         /\ a.result.code = "OK" /\ b.result.code = "OK"
         /\ a.projectId = b.projectId /\ a.fileName = b.fileName
         /\ ~failed /\ background = {}) =>
            /\ View(cs) \in {ViewOfList(a.chunks), ViewOfList(b.chunks)}
            /\ Cardinality({c.chunkIndex : c \in cs}) = Cardinality(cs)

IsSortedByIndex(s) ==
    \A i \in 1..(Len(s) - 1) : s[i].chunkIndex <= s[i + 1].chunkIndex

(* C8: getFileContent returns the texts of all the chunks it fetched,      *)
(* joined in ascending chunkIndex order with nothing between them, in      *)
(* whatever order the store returned them.                                 *)
C8_ContentInIndexOrder ==
    \A p \in Procs :
        (call[p].pc = "done" /\ call[p].op = "get" /\ call[p].fault = "none") =>
            \E s \in Orders(call[p].fetched) :
                /\ IsSortedByIndex(s)
                /\ call[p].result = Ok(Concat(ChunkTexts(s)))

C8_Witness ==
    \E p \in Procs :
        /\ call[p].pc = "done" /\ call[p].op = "get" /\ call[p].fault = "none"
        /\ Cardinality(call[p].fetched) >= 2
        /\ call[p].result.code = "OK"

(* C9: with chunkOverlap = 0, getFileContent after a successful update     *)
(* with content D returns exactly D.                                       *)
C9_RoundTrip ==
    \A p \in Procs :
        (/\ call[p].pc = "done" /\ call[p].op = "get"
         /\ call[p].fault \in {"none", "zero"}
         /\ call[p].quiet /\ ~failed /\ ~writeOverlap
         /\ options.chunkOverlap = 0
         /\ Len(call[p].lastAtFetch.chunks) > 0) =>
            call[p].result = Ok(call[p].lastAtFetch.content)

(* C10: getFileContent reports zero chunks of an existing project as       *)
(* InvalidParams and a failed store call as InternalError, never as        *)
(* not-found and never as content.                                         *)
C10_GetFailureCauses ==
    \A p \in Procs :
        (call[p].pc = "done" /\ call[p].op = "get") =>
            /\ call[p].fault = "zero" =>
                 (call[p].result = InvalidParams /\ ProjectFound(call[p].projectId))
            /\ call[p].fault \in {"fetch", "exists"} => call[p].result = InternalError
            /\ call[p].result.code = "OK" => call[p].fetched # {}

C10_Witness ==
    /\ call["h1"].pc = "done" /\ call["h1"].op = "get" /\ call["h1"].fault = "fetch"
    /\ call["h2"].pc = "done" /\ call["h2"].op = "get" /\ call["h2"].fault = "zero"

---------------------------------------------------------------------------
(* C16: listFiles returns exactly the file names that have at least one    *)
(* chunk stored for the project, each once; a file whose last write was a  *)
(* successful delete, or an update to zero chunks, is not among them.      *)
C16_ListFilesExact ==
    \A p \in Procs :
        (call[p].pc = "done" /\ call[p].op = "list" /\ call[p].result.code = "OK") =>
            LET names == call[p].result.value
            IN  /\ \A i \in 1..Len(names) : \A j \in 1..Len(names) :
                     names[i] = names[j] => i = j
                /\ {names[i] : i \in 1..Len(names)} = {r.fileName : r \in call[p].fetched}
                /\ \A r \in call[p].fetched : r.projectId = call[p].projectId
                /\ (call[p].quiet /\ ~failed /\ ~writeOverlap) =>
                     \A f \in call[p].cleared : \A i \in 1..Len(names) : names[i] # f

C16_Witness ==
    \E p \in Procs : \E q \in Procs \ {p} :
        /\ call[p].pc = "done" /\ call[p].op = "list" /\ call[p].result.code = "OK"
        /\ call[p].quiet /\ ~failed /\ ~writeOverlap
        /\ call[q].pc = "done" /\ call[q].op = "delete" /\ call[q].result.code = "OK"
        /\ call[q].id < call[p].id
        /\ Cardinality(call[q].before) >= 2
        /\ call[q].fileName \in call[p].cleared
        /\ call[p].result.value = <<OtherFileName>>

---------------------------------------------------------------------------
(* Claims about memoryBank_search, checked under SearchSpec *)

\* the stored chunks a search of (projectId, fileFilter) ranges over
InScope(s) ==
    {c \in store : c.projectId = s.projectId /\ (s.fileFilter = {} \/ c.fileName \in s.fileFilter)}

DistanceTo(s, c) == Distance(Embedding(s.query), Embedding(c.chunkText))

Returned(s) == {s.result.value[i] : i \in 1..Len(s.result.value)}

(* C11: a semantic search that returns, returns at most topK results in    *)
(* ascending order of score, and they are the topK chunks of the project   *)
(* (within the filter) nearest to the query, each with its distance.       *)
C11_SemanticTopK ==
    (search.pc = "done" /\ search.searchType = "semantic" /\ search.result.code = "OK") =>
        LET rs == search.result.value
            scope == InScope(search)
        IN  /\ Len(rs) <= search.topK
            /\ \A i \in 1..Len(rs) : \A j \in i..Len(rs) : rs[i].score <= rs[j].score
            /\ \E R \in SUBSET scope :
                 /\ Cardinality(R) = Len(rs)
                 /\ Len(rs) = Min({search.topK, Cardinality(scope)})
                 /\ Returned(search) = {SearchResult(c, DistanceTo(search, c)) : c \in R}
                 /\ \A c \in R : \A d \in scope \ R :
                      DistanceTo(search, c) <= DistanceTo(search, d)

C11_Witness ==
    /\ search.pc = "done" /\ search.searchType = "semantic" /\ search.result.code = "OK"
    /\ search.topK = 3
    /\ Cardinality(InScope(search)) = 4
    /\ Len(search.result.value) = 3
    /\ DistanceTo(search, search.returned[1]) > DistanceTo(search, search.returned[3])
    /\ search.result.value[1].score < search.result.value[3].score

(* C12: a keyword search that returns, returns only chunks whose text      *)
(* contains the query case-insensitively, each with a null score, ordered  *)
(* by file name then chunkIndex, cut to the first topK of that order.      *)
C12_KeywordOrder ==
    (search.pc = "done" /\ search.searchType = "keyword" /\ search.result.code = "OK") =>
        LET rs == search.result.value
            hits == {c \in InScope(search) :
                        includes(toLowerCase(c.chunkText), toLowerCase(search.query))}
            place(r) == <<localeCompare(r.fileName, "f1"), r.chunkIndex>>
            before(a, b) == a[1] < b[1] \/ (a[1] = b[1] /\ a[2] < b[2])
        IN  /\ Len(rs) = Min({search.topK, Cardinality(hits)})
            /\ \A i \in 1..Len(rs) :
                 /\ rs[i].score = NullScore
                 /\ \E c \in hits : rs[i] = SearchResult(c, NullScore)
                 /\ \A j \in (i + 1)..Len(rs) : before(place(rs[i]), place(rs[j]))
                 /\ \A c \in hits :
                      SearchResult(c, NullScore) \notin Returned(search) =>
                          before(place(rs[i]), place(c))

C12_Witness ==
    /\ search.pc = "done" /\ search.searchType = "keyword" /\ search.result.code = "OK"
    /\ search.query = <<"A", "B">>
    /\ search.topK = 1
    /\ Len(search.result.value) = 1
    /\ Len(search.returned) = 4
    /\ search.returned[1].fileName = "f2"
    /\ includes(toLowerCase(search.returned[1].chunkText), toLowerCase(search.query))
    /\ ~includes(toLowerCase(search.returned[2].chunkText), toLowerCase(search.query))
    /\ search.result.value[1].fileName = "f1"
    /\ \E c \in InScope(search) :
         /\ includes(toLowerCase(c.chunkText), toLowerCase(search.query))
         /\ SearchResult(c, NullScore) \notin Returned(search)

(* C13: a search of a project that does not exist fails with InvalidParams *)
(* before any query of the chunk store and before any embedding call.      *)
C13_UnknownProjectRejected ==
    (search.pc = "done" /\ search.projectId \notin projects /\ search.fault # "exists") =>
        /\ search.result = InvalidParams
        /\ search.issued \subseteq {"lookup"}

C13_Witness ==
    /\ search.pc = "done" /\ search.fault = "no_project"
    /\ search.searchType = "semantic" /\ search.fileFilter # {}
    /\ store # {}

(* C14: a search request with an unsupported mode, an empty query or a     *)
(* topK outside 1..20 is rejected with InvalidParams before the project    *)
(* store, the chunk store or the embedder is called.                       *)
C14_InvalidArgumentsRejected ==
    (/\ search.pc = "done"
     /\ \/ search.searchType \notin {"semantic", "keyword"}
        \/ search.query = <<>>
        \/ search.topK \notin 1..20) =>
        /\ search.result = InvalidParams
        /\ search.issued = {}

C14_Witness ==
    /\ search.pc = "done" /\ search.fault = "schema"
    /\ search.topK > 20
    /\ search.searchType = "keyword" /\ search.query = <<"a">>
    /\ search.projectId \in projects

(* C15: a search whose query embedding or whose chunk-store query failed   *)
(* fails with InternalError, in either mode; it returns no result list.    *)
C15_SearchFailuresSurface ==
    (search.pc = "done" /\ search.fault \in {"not_ready", "embed", "query"}) =>
        search.result = InternalError

C15_Witness ==
    /\ search.pc = "done" /\ search.fault = "query"
    /\ search.searchType = "keyword"
    /\ search.matching # {}

---------------------------------------------------------------------------
(* C20, checked under EmbedSpec: chunkText and generateEmbedding fail with *)
(* InternalError whenever no initialize has completed successfully; a      *)
(* failed initialize leaves the flag false and both handles null; an       *)
(* initialize called after a successful one loads nothing.                 *)
C20_InitializedGuard ==
    /\ (entry.fn # "none" /\ ~entry.ready) => entry.result = InternalError
    /\ ~embedder.completed => ~embedder.isInitialized
    /\ initializing.pc = "thrown" =>
         (~embedder.isInitialized /\ ~embedder.extractor /\ ~embedder.tokenizer)
    /\ (initializing.pc = "returned" /\ initializing.afterSuccess) =>
         initializing.loaded = 0

C20_Witness ==
    /\ initializing.pc = "tokenizer"
    /\ embedder.extractor /\ ~embedder.isInitialized
    /\ embedder.started >= 2
    /\ entry.fn = "generateEmbedding" /\ ~entry.ready
    /\ entry.result = InternalError

---------------------------------------------------------------------------
(* C21, checked under StartSpec: no tool is registered, the transport is   *)
(* not connected and no request is handled until                           *)
(* DatabaseService.initialize and then EmbeddingService.initialize have    *)
(* both completed successfully; when either fails the process exits with   *)
(* code 1 and has served no request.                                       *)
C21_InitializeBeforeServing ==
    /\ (server.registered # <<>> \/ server.connected \/ server.handled # <<>>) =>
         (database.isInitialized /\ embedder.isInitialized)
    /\ initializing.pc # "idle" => database.isInitialized
    /\ (database.pc = "thrown" \/ initializing.pc = "thrown") =>
         /\ server.pc \in {"db_init", "embed_init", "exited"}
         /\ server.registered = <<>> /\ ~server.connected
    /\ server.pc = "exited" => (server.exitCode = ExitFailure /\ server.handled = <<>>)
    /\ server.pc # "exited" => server.exitCode = NoExit

C21_Witness ==
    /\ server.pc = "exited"
    /\ database.isInitialized
    /\ initializing.pc = "thrown"
    /\ embedder.loads = 1
    /\ server.inbox # <<>>

---------------------------------------------------------------------------
(* C22, checked under ProjectSpec: once deleteProject(projectId) has       *)
(* returned success the project is gone (findProjectById finds nothing, a  *)
(* later listProjects omits it), its chunks were deleted before its        *)
(* record, and, no file write having overlapped the call, no chunk with    *)
(* that projectId is left in the chunk store.                              *)
C22_DeleteProjectCascades ==
    \A p \in Procs :
        /\ (call[p].op = "deleteProject" /\ "deleteRecord" \in call[p].issued) =>
              "deleteChunks" \in call[p].issued
        /\ (call[p].op = "deleteProject" /\ call[p].pc = "done"
            /\ call[p].result.code = "OK") =>
              /\ ~ProjectFound(call[p].projectId)
              /\ call[p].issued = {"deleteChunks", "deleteRecord"}
              /\ RanAlone(call[p]) => \A c \in store : c.projectId # call[p].projectId
        /\ (call[p].op = "listProjects" /\ call[p].pc = "done"
            /\ call[p].result.code = "OK") =>
              \A i \in 1..Len(call[p].result.value) :
                  call[p].result.value[i] \notin call[p].cleared

C22_Witness ==
    \E p \in Procs, q \in Procs :
        /\ call[p].op = "deleteProject" /\ call[p].pc = "done"
        /\ call[p].result.code = "OK"
        /\ Cardinality(call[p].cleared) >= 2
        /\ call[q].op = "listProjects" /\ call[q].pc = "done"
        /\ call[q].cleared = {call[p].projectId}
        /\ store = {}

---------------------------------------------------------------------------
(* C23, checked under ProjectSpec: no two stored projects share a name,    *)
(* whatever the interleaving of createProject calls; a createProject that  *)
(* finds its name taken fails with InvalidParams and has added nothing.    *)
C23_UniqueProjectNames ==
    /\ \A p \in projects, q \in projects :
         projectNames[p] = projectNames[q] => p = q
    /\ \A h \in Procs :
         (call[h].op = "createProject" /\ call[h].pc = "done") =>
            /\ call[h].fault = "conflict" =>
                 (call[h].result = InvalidParams /\ call[h].issued = {})
            /\ call[h].result.code = "OK" => ~call[h].quiet

---------------------------------------------------------------------------
(* C30, checked under ProjectSpec: whenever no request is in progress and  *)
(* no insert is still on its way, every stored chunk belongs to a project  *)
(* that exists, for every interleaving of updateFileContent with           *)
(* deleteProject.                                                          *)
C30_NoOrphanChunks ==
    ((\A p \in Procs : call[p].pc \in {"idle", "done"}) /\ background = {}) =>
        \A c \in store : ProjectFound(c.projectId)

---------------------------------------------------------------------------
(* C24, checked under Spec: an updateFileContent whose chunking fails on   *)
(* the tokenizer reports InternalError, holds no chunk list, partial or    *)
(* not, has issued no delete and no insert, and leaves the file's stored   *)
(* chunks as they were.                                                    *)
C24_ChunkFailureAborts ==
    \A p \in Procs :
        (call[p].pc = "done" /\ call[p].fault = "chunk") =>
            /\ call[p].result = InternalError
            /\ call[p].chunks = <<>>
            /\ call[p].issued = {} /\ call[p].idsToDelete = {} /\ call[p].pending = {}
            /\ RanAlone(call[p]) => StoredView(call[p]) = call[p].before

C24_Witness ==
    \E p \in Procs :
        /\ call[p].pc = "done" /\ call[p].fault = "chunk"
        /\ Len(chunkText(call[p].content)) >= 2
        /\ RanAlone(call[p])
        /\ call[p].before # {}

---------------------------------------------------------------------------
(* C25, checked under PoolSpec: a keyword search examines a pool of at     *)
(* most 100 chunks of the project, taken after the file filter; every      *)
(* result is a matching chunk of that pool; and when at most 100 chunks of *)
(* the project are within the filter, the result is the first topK of all  *)
(* their matching chunks in (fileName, chunkIndex) order, none missed.     *)
Matches(c, query) == includes(toLowerCase(c.chunkText), toLowerCase(query))

C25_KeywordCandidatePool ==
    (search.pc = "done" /\ search.searchType = "keyword" /\ search.result.code = "OK") =>
        LET res == search.result.value
            pool == {search.returned[i] : i \in 1..Len(search.returned)}
            all == {c \in search.matching : Matches(c, search.query)}
            shown == {c \in all : \E k \in 1..Len(res) :
                                      /\ res[k].fileName = c.fileName
                                      /\ res[k].chunkIndex = c.chunkIndex}
        IN  /\ Cardinality(pool) <= KeywordCandidateLimit
            /\ pool \subseteq search.matching
            /\ \A k \in 1..Len(res) :
                 \E c \in pool : /\ Matches(c, search.query)
                                 /\ res[k] = SearchResult(c, NullScore)
            /\ Cardinality(search.matching) <= KeywordCandidateLimit =>
                 /\ Len(res) = Min({search.topK, Cardinality(all)})
                 /\ Cardinality(shown) = Len(res)
                 /\ \A k \in 1..(Len(res) - 1) : KeywordBefore(res[k], res[k + 1])
                 /\ \A c \in shown : \A d \in all \ shown : KeywordBefore(c, d)

C25_Witness ==
    /\ search.pc = "done" /\ search.searchType = "keyword" /\ search.result.code = "OK"
    /\ Cardinality(search.matching) = KeywordCandidateLimit
    /\ Len(search.returned) = KeywordCandidateLimit
    /\ search.topK = 3
    /\ Len(search.result.value) = 2
    /\ search.result.value[2].chunkIndex = KeywordCandidateLimit - 1

---------------------------------------------------------------------------
(* C29, checked under SearchSpec: in both modes every result of a search   *)
(* is a chunk stored under the searched projectId, with a fileName from    *)
(* fileFilter when that is a non-empty list; an absent or empty fileFilter *)
(* leaves the whole project in scope; and the result is one the search     *)
(* gives when the chunks of every other project are taken out of the       *)
(* store.                                                                  *)
ResultsOver(st, s) ==
    LET scope == WhereClause(st, s.projectId, s.fileFilter)
    IN  IF s.searchType = "semantic"
        THEN {SemanticResults(rows, Embedding(s.query)) :
                rows \in UNION {Orders(R) : R \in NearestSets(scope, Embedding(s.query), s.topK)}}
        ELSE {keywordSearchChunks(rows, s.query, s.topK) :
                rows \in UNION {RowOrders(pool) :
                                  pool \in CandidatePools(scope, KeywordCandidateLimit)}}

C29_SearchScope ==
    (search.pc = "done" /\ search.result.code = "OK") =>
        LET own == {c \in store : c.projectId = search.projectId}
            rows == {search.returned[i] : i \in 1..Len(search.returned)}
            res == search.result.value
        IN  /\ rows \subseteq own
            /\ search.fileFilter # {} => \A c \in rows : c.fileName \in search.fileFilter
            /\ search.fileFilter = {} => search.matching = own
            /\ \A k \in 1..Len(res) :
                 \E c \in rows : /\ res[k].text = c.chunkText
                                 /\ res[k].fileName = c.fileName
                                 /\ res[k].chunkIndex = c.chunkIndex
            /\ res \in ResultsOver(own, search)

C29_Witness ==
    /\ search.pc = "done" /\ search.result.code = "OK"
    /\ search.searchType = "semantic"
    /\ search.fileFilter = {"f1"}
    /\ Len(search.result.value) >= 2
    /\ \E c \in store :
         /\ c.projectId # search.projectId /\ c.fileName = "f1"
         /\ \A i \in 1..Len(search.returned) :
              /\ DistanceTo(search, c) < DistanceTo(search, search.returned[i])
              /\ c.chunkText # search.returned[i].chunkText
    /\ \E c \in store :
         /\ c.projectId = search.projectId /\ c.fileName = "f2"
         /\ \A i \in 1..Len(search.returned) :
              DistanceTo(search, c) < DistanceTo(search, search.returned[i])

---------------------------------------------------------------------------
(* C28, checked under FrameSpec: every chunk that a step of                *)
(* updateFileContent(p, f, ..) or deleteFileContent(p, f) deletes from or  *)
(* inserts into the store has projectId = p and fileName = f, also when    *)
(* the operation fails; an insert that lands after its update has thrown   *)
(* is one of that update's own; the chunks of every other file and project *)
(* stay as they are.                                                       *)
C28_OtherFilesUntouched ==
    [][\A x \in (store \ store') \cup (store' \ store) :
          \/ \E p \in Procs :
                /\ call'[p] # call[p]
                /\ call[p].op \in Writes
                /\ x.projectId = call[p].projectId /\ x.fileName = call[p].fileName
          \/ x \in background /\ x \in store']_vars

C28_Witness ==
    \E p \in Procs :
        /\ call[p].pc = "done" /\ call[p].op = "update" /\ call[p].result.code # "OK"
        /\ call[p].fault = "insert"
        /\ call[p].issued = {"delete", "add"}
        /\ call[p].projectId = "p1"
        /\ View(FileChunks(store, "p1", "f1")) # call[p].before
        /\ FileChunks(store, "p1", OtherFileName) # {}
        /\ View(FileChunks(store, "p2", "f1")) = ViewOfList(chunkText(SeedContent))


---------------------------------------------------------------------------
(* Claims about one iteration of the splitter's loop, checked under        *)
(* LoopSpec                                                                *)

\* the last Min(length, 4 * chunkOverlap) characters of a text
OverlapTail(text) ==
    SubSeq(text, Len(text) - Min({Len(text), 4 * options.chunkOverlap}) + 1, Len(text))

IsPrefix(s, text) == Len(s) <= Len(text) /\ SubSeq(text, 1, Len(s)) = s

\* C27: when adding the next segment would exceed chunkSize, the current
\* chunk is closed, emitted if and only if it has a non-whitespace character;
\* the chunk seeded next is the last min(length, 4 * chunkOverlap) characters
\* of the closed chunk followed by the separator and the segment; the loop
\* goes on with that chunk, so an emitted chunk and the chunk after it share
\* the tail.
C27_CloseAndSeed ==
    (descent.pc = "loop" /\ descent.last.branch \in {"seed", "overflow"}) =>
        LET it == descent.last
            segment == descent.splits[descent.i]
            nonWhite == \E k \in 1..Len(it.currentChunk) : it.currentChunk[k] \notin {" ", NL}
            tail == OverlapTail(it.currentChunk)
        IN  /\ it.currentChunkTokens + it.splitTokens > options.chunkSize
            /\ it.splitWithSeparator = Head(descent.seps) \o segment
            /\ nonWhite => it.closed = Append(it.finalChunks, it.currentChunk)
            /\ ~nonWhite => it.closed = it.finalChunks
            /\ it.seeded = tail \o it.splitWithSeparator
            /\ it.branch = "seed" =>
                 /\ descent.finalChunks = it.closed
                 /\ descent.currentChunk = it.seeded
                 /\ IsPrefix(tail, descent.currentChunk)
                 /\ nonWhite =>
                      OverlapTail(descent.finalChunks[Len(descent.finalChunks)]) = tail

\* a chunk longer than the overlap is closed and the next one is seeded with its tail
C27_Witness ==
    /\ descent.pc = "loop"
    /\ descent.last.branch = "seed"
    /\ HasNonWhitespace(descent.last.currentChunk)
    /\ Len(descent.last.overlapText) > 0
    /\ Len(descent.last.overlapText) < Len(descent.last.currentChunk)
    /\ descent.currentChunk = descent.last.overlapText \o descent.last.splitWithSeparator

\* C26: when the overlap seed followed by the segment exceeds chunkSize, the
\* call recurses on that combined text with the remaining separators, appends
\* the sub-chunks after the closed chunk, emits no chunk over chunkSize
\* tokens and goes on with an empty current chunk.
C26_OverflowRecursesOnSeeded ==
    (descent.pc = "loop" /\ descent.last.branch = "overflow") =>
        LET it == descent.last
        IN  /\ it.seededTokens > options.chunkSize
            /\ it.recursedOn = it.overlapText \o it.splitWithSeparator
            /\ it.recursedSeps = Tail(descent.seps)
            /\ descent.finalChunks = it.closed \o it.subChunks
            /\ \A k \in 1..Len(it.subChunks) : tokenCount(it.subChunks[k]) <= options.chunkSize
            /\ descent.currentChunk = <<>>
            /\ descent.currentChunkTokens = 0

====
